---- MODULE Spec2Model ----
(***************************************************************************)
(* Model of the stanki.ru catalog harvester (package main of               *)
(* memrook/parserEol): the category walk getProductsFromCategory, the      *)
(* fan-out / fan-in of main over the categories, removeDuplicateProducts   *)
(* and the enrichment pass enrichProductsWithDetails / getProductDetails.  *)
(***************************************************************************)
EXTENDS Integers, Sequences, FiniteSets, TLC

(***************************************************************************)
(* Bounds of the model.                                                    *)
(***************************************************************************)
\* number of categories handed to the harvest loop of main
NumCats == 2
\* largest value of the -threads flag that is explored (0..MaxThreads)
MaxThreads == 2
\* largest value of the -enrich-threads flag that is explored
MaxEnrichThreads == 2
\* longest slice handed to removeDuplicateProducts on its own
MaxRecords == 3
\* largest maxRetries handed to doRequestWithRetry on its own
MaxRetries == 3

Cats == 1..NumCats

(***************************************************************************)
(* Program constants.                                                      *)
(***************************************************************************)
\* maxPages := 100 in getProductsFromCategory
MaxPagesCeiling == 100
\* doRequestWithRetry(pageURL, 2, delayMs) / doRequestWithRetry(url, 2, delayMs)
PageRetries == 2
\* http.StatusOK
StatusOK == 200
\* delay = 500, the default of the -delay flag
DefaultDelayMs == 500

(***************************************************************************)
(* The environment: what the site answers.                                 *)
(***************************************************************************)
\* HTTP status codes a response can carry
Statuses == {200, 404}

\* the -start-page / -end-page values explored by the whole pipeline
PipelineStartPages == {1}
PipelineEndPages == {0}
\* a site shows pageSize product cards per non-empty page, has no product
\* card beyond page lastPage, a page starts at one of the catalog positions
\* in offsets, and a detail page holds one of details
PipelineSites ==
    {[pageSize |-> 2, lastPage |-> 1, offsets |-> {1},
      details |-> {[Description |-> "D", Features |-> <<>>],
                  [Description |-> "", Features |-> <<"g">>]}]}

\* the links doc.Find("a[href^='/catalog/']") finds on the catalog page of
\* the pipeline: two links to one category and a link to a product page
SiteLinks ==
    << [href |-> "/catalog/a_b/", underscore |-> TRUE, html |-> FALSE, name |-> "A"],
       [href |-> "/catalog/a_b/1.html", underscore |-> TRUE, html |-> TRUE, name |-> "P"],
       [href |-> "/catalog/a_b/", underscore |-> TRUE, html |-> FALSE, name |-> "A again"] >>

\* the values explored for a single walk
WalkStartPages == {-1, 0, 1, 2, 3, 99, 100, 101}
WalkEndPages == {0, 1, 2, 3, 5, 100, 101, 150}
WalkSites ==
    {[pageSize |-> 1, lastPage |-> 200, offsets |-> {1}, details |-> {}],
     [pageSize |-> 10, lastPage |-> 2, offsets |-> {1}, details |-> {}]}

CatName(c) == "cat" \o ToString(c)

\* type Product struct
Product(id, name, url, cat, feats) ==
    [ID |-> id, Name |-> name, URL |-> url, Description |-> "", Price |-> "1",
     ImageURL |-> "img", Category |-> cat, Features |-> feats]

\* the k-th product card of the site; card 0 carries no data-product-id
\* value, every other card carries a non-empty one
Card(k, c) ==
    IF k = 0
    THEN Product("", CatName(c) \o "-x", "/p/x/", CatName(c), <<>>)
    ELSE Product("p" \o ToString(k), CatName(c) \o "-p" \o ToString(k),
                 "/p/" \o ToString(k) \o "/", CatName(c),
                 IF k % 2 = 1 THEN <<"f0">> ELSE <<>>)

\* the product cards the site shows in category c: the site sells two
\* products; odd categories list the card without id and product 1, even
\* categories list products 1 and 2 (each under the category's own name)
Catalog(c) == << Card((c - 1) % 2, c), Card(((c - 1) % 2) + 1, c) >>

\* a page of n cards of category c, starting at card `first` of the catalog
PageOf(c, first, n) ==
    [k \in 1..n |-> Catalog(c)[((first + k - 2) % Len(Catalog(c))) + 1]]

VARIABLES
    mainPc,       \* position of main
    cfg,          \* the flags: threads, startPage, endPage; and the site
    walker,       \* per category: the goroutine of main and its call of
                  \* getProductsFromCategory (fetches and pagesDone count the
                  \* calls of doRequestWithRetry and of extractProductsFromPage,
                  \* attempts the client.Get calls of the last doRequestWithRetry,
                  \* delays the time.Sleep calls of the page loop)
    semaphore,    \* number of slots of `semaphore` (the fetch gate) that are taken
    wg,           \* counter of the WaitGroup of main
    chanClosed,   \* productChan of main has been closed
    allProducts,  \* allProducts of main
    enrichSemaphore, \* number of slots of enrichSemaphore (the enrichment gate) that are taken
    enrich,       \* the locals of enrichProductsWithDetails
    detail,       \* per index: the goroutine of enrichProductsWithDetails and its call of getProductDetails
    fetcher,      \* a call of doRequestWithRetry on its own: its arguments,
                  \* what client.Get answers, and what the call returned
    discovery,    \* the call of getCategories: the links of the catalog page,
                  \* the attempts of the request, and what the call returned
    progress,     \* the calls of updateProgress of one enrichment pass, step
                  \* by step: the mutex, the counters, and where each caller is
    oracle        \* a call of extractProductsFromPage on its own: the document,
                  \* the category URL, and what the search for a next page gave

harvestVars == <<cfg, walker, semaphore, wg, chanClosed>>
enrichVars == <<enrichSemaphore, enrich, detail>>
vars == <<mainPc, cfg, walker, semaphore, wg, chanClosed, allProducts,
          enrichSemaphore, enrich, detail, fetcher, discovery,
          progress, oracle>>

(***************************************************************************)
(* doRequestWithRetry: outs[i] is the outcome of the i-th client.Get.      *)
(***************************************************************************)
\* what makes a client.Get fail
Causes == {"timeout", "refused"}

AttemptErr(cause) == [ok |-> FALSE, status |-> 0, cause |-> cause]
AttemptResp(s) == [ok |-> TRUE, status |-> s, cause |-> "nil"]
AttemptOutcomes ==
    {AttemptErr(c) : c \in Causes} \cup {AttemptResp(s) : s \in Statuses}

\* a test that takes only a response with the status 200 for a success
GotOKResponse(out) == out.ok /\ out.status = StatusOK

\* if err == nil: client.Get gave a response, whatever its status
ErrIsNil(out) == out.ok

\* a sleep that does not grow with the attempts
BackoffFlat(delayMs, i) == delayMs

\* time.Duration(delayMs*(i+1)) * time.Millisecond, in milliseconds
Backoff(delayMs, i) == delayMs * (i + 1)

\* the loop of doRequestWithRetry from iteration i on; err is the err of the
\* function (the cause of the last failed client.Get, "nil" before the first),
\* sleeps the time.Sleep calls so far, events the client.Get and time.Sleep
\* calls so far in the order they were made
RECURSIVE RetryLoop(_, _, _, _, _, _, _)
RetryLoop(outs, maxRetries, delayMs, i, err, sleeps, events) ==
    IF i < maxRetries
    THEN IF ErrIsNil(outs[i + 1])
         THEN [err |-> "nil", cause |-> "nil", status |-> outs[i + 1].status,
               attempts |-> i + 1, sleeps |-> sleeps,
               events |-> Append(events, [op |-> "get", n |-> i + 1])]
         ELSE RetryLoop(outs, maxRetries, delayMs, i + 1, outs[i + 1].cause,
                        Append(sleeps, Backoff(delayMs, i)),
                        events \o << [op |-> "get", n |-> i + 1],
                                     [op |-> "sleep", n |-> Backoff(delayMs, i)] >>)
    ELSE [err |-> "exhausted", cause |-> err, status |-> 0, attempts |-> i,
          sleeps |-> sleeps, events |-> events]

\* a fetcher that also waits before its first attempt
doRequestWithRetryInitialDelay(outs, maxRetries, delayMs) ==
    RetryLoop(outs, maxRetries, delayMs, 0, "nil", <<delayMs>>,
              << [op |-> "sleep", n |-> delayMs] >>)

\* var resp, err; for i := 0; i < maxRetries; i++ {...}; return nil, fmt.Errorf(...)
doRequestWithRetry(outs, maxRetries, delayMs) ==
    RetryLoop(outs, maxRetries, delayMs, 0, "nil", <<>>, <<>>)

\* every sequence of maxRetries attempt outcomes
AttemptSeqs(maxRetries) == [1..maxRetries -> AttemptOutcomes]

\* no call of doRequestWithRetry on its own
NoFetcher ==
    [pc |-> "idle", maxRetries |-> 0, delayMs |-> 0, outs |-> <<>>,
     result |-> doRequestWithRetry(<<>>, 0, 0)]

\* doRequestWithRetry(url, maxRetries, delayMs) is called and returns
FetcherCall ==
    /\ fetcher.pc = "call"
    /\ fetcher' = [fetcher EXCEPT
                     !.pc = "returned",
                     !.result = doRequestWithRetry(fetcher.outs, fetcher.maxRetries,
                                                   fetcher.delayMs)]
    /\ UNCHANGED <<discovery, progress, oracle, mainPc, harvestVars, allProducts, enrichVars>>

(***************************************************************************)
(* getCategories(): links is what doc.Find("a[href^='/catalog/']") finds   *)
(* on the catalog page, in document order.                                 *)
(***************************************************************************)
\* doRequestWithRetry(catalogURL, 3, delay)
CatalogRetries == 3
\* len(name) < 100
MaxNameLen == 100
BaseURL == "https://www.stanki.ru"

\* a link of the catalog page: its href, whether the href contains "_" and
\* ".html", and its trimmed text
Link(href, underscore, html, name) ==
    [href |-> href, underscore |-> underscore, html |-> html, name |-> name]

\* strings.Contains(href, "_") && !strings.Contains(href, ".html"), and
\* name != "" && len(name) < 100
IsCategoryLink(l) ==
    l.underscore /\ ~l.html /\ l.name # "" /\ Len(l.name) < MaxNameLen

\* categories = append(categories, Category{Name: name, URL: baseURL + href})
RECURSIVE FoundCategories(_)
FoundCategories(links) ==
    IF links = <<>> THEN <<>>
    ELSE LET l == Head(links) IN
         (IF IsCategoryLink(l)
          THEN <<[Name |-> l.name, URL |-> BaseURL \o l.href]>>
          ELSE <<>>) \o FoundCategories(Tail(links))

\* a dedup that lets a later category with the same URL take the place of
\* the earlier one
RECURSIVE UniqueCategoriesLastWins(_, _)
UniqueCategoriesLastWins(categories, unique) ==
    IF categories = <<>> THEN unique
    ELSE LET c == Head(categories) IN
         UniqueCategoriesLastWins(Tail(categories),
            IF \E k \in DOMAIN unique : unique[k].URL = c.URL
            THEN [k \in DOMAIN unique |->
                    IF unique[k].URL = c.URL THEN c ELSE unique[k]]
            ELSE Append(unique, c))

\* for _, category := range categories { if !seen[category.URL] {
\* seen[category.URL] = true; uniqueCategories = append(uniqueCategories, category) } }
RECURSIVE UniqueCategories(_, _)
UniqueCategories(categories, unique) ==
    IF categories = <<>> THEN unique
    ELSE LET c == Head(categories) IN
         UniqueCategories(Tail(categories),
            IF \E k \in DOMAIN unique : unique[k].URL = c.URL
            THEN unique
            ELSE Append(unique, c))

\* getCategories has not been called
NoDiscovery(links) ==
    [pc |-> "idle", links |-> links, attempts |-> 0, err |-> "nil",
     categories |-> <<>>]

\* categories, err = getCategories(); if err != nil { log.Fatalf(...) }
GetCategories ==
    /\ mainPc = "start"
    /\ discovery.pc = "idle"
    /\ \E outs \in AttemptSeqs(CatalogRetries), e \in {"nil", "decode", "parse"} :
         LET r == doRequestWithRetry(outs, CatalogRetries, DefaultDelayMs)
             err == IF r.err # "nil" THEN "network"
                    ELSE IF r.status # StatusOK THEN "status" ELSE e
         IN /\ discovery' = [discovery EXCEPT
                               !.pc = "done",
                               !.attempts = r.attempts,
                               !.err = err,
                               !.categories =
                                  IF err = "nil"
                                  THEN UniqueCategories(FoundCategories(discovery.links), <<>>)
                                  ELSE <<>>]
            /\ mainPc' = IF err = "nil" THEN "start" ELSE "fatal"
    /\ UNCHANGED <<fetcher, progress, oracle, harvestVars, allProducts, enrichVars>>

(***************************************************************************)
(* getProductsFromCategory(category, semaphore, startPage, endPage, delay) *)
(***************************************************************************)
IdleWalker ==
    [pc |-> "idle", pageNum |-> 0, maxPages |-> 0, allProducts |-> <<>>,
     products |-> <<>>, hasNextPage |-> FALSE, status |-> 0, err |-> "nil",
     fetches |-> 0, attempts |-> 0, pagesDone |-> 0, delays |-> 0,
     got |-> <<>>, sent |-> 0]

\* a walk that does not look at endPage
EffectiveMaxPageIgnoresEnd(endPage) == MaxPagesCeiling

\* maxPages := 100; if endPage > 0 && endPage < maxPages { maxPages = endPage }
EffectiveMaxPage(endPage) ==
    IF endPage > 0 /\ endPage < MaxPagesCeiling THEN endPage ELSE MaxPagesCeiling

\* a send on the gate that never blocks
GateAlwaysFree == TRUE

\* a gate that is made with one slot when the limit is below 1
GateFreeAtLeastOneSlot == semaphore < (IF cfg.threads < 1 THEN 1 ELSE cfg.threads)

\* semaphore <- struct{}{}: blocks while the channel buffer is full
GateFree == semaphore < cfg.threads

Acquire(c) ==
    /\ walker[c].pc = "acquire"
    /\ GateFree
    /\ semaphore' = semaphore + 1
    /\ walker' = [walker EXCEPT ![c].pc = "loop",
                                ![c].pageNum = cfg.startPage,
                                ![c].maxPages = EffectiveMaxPage(cfg.endPage)]
    /\ UNCHANGED <<fetcher, discovery, progress, oracle, mainPc, cfg, wg, chanClosed, allProducts, enrichVars>>

\* a page loop that sleeps between two pages only, not before the first one
LoopCheckNoFirstDelay(c) ==
    /\ walker[c].pc = "loop"
    /\ walker' = [walker EXCEPT
                    ![c].pc = IF walker[c].pageNum <= walker[c].maxPages
                              THEN "fetch" ELSE "ret",
                    ![c].delays = IF walker[c].pageNum <= walker[c].maxPages
                                     /\ walker[c].fetches > 0
                                  THEN @ + 1 ELSE @,
                    ![c].products = <<>>,
                    ![c].hasNextPage = FALSE,
                    ![c].status = 0]
    /\ UNCHANGED <<fetcher, discovery, progress, oracle, mainPc, cfg, semaphore, wg, chanClosed, allProducts, enrichVars>>

\* for pageNum <= maxPages { pageURL := ...; time.Sleep(delayMs ms)
\* (delays counts the sleeps of the page loop)
LoopCheck(c) ==
    /\ walker[c].pc = "loop"
    /\ walker' = [walker EXCEPT
                    ![c].pc = IF walker[c].pageNum <= walker[c].maxPages
                              THEN "fetch" ELSE "ret",
                    ![c].delays = IF walker[c].pageNum <= walker[c].maxPages
                                  THEN @ + 1 ELSE @,
                    ![c].products = <<>>,
                    ![c].hasNextPage = FALSE,
                    ![c].status = 0]
    /\ UNCHANGED <<fetcher, discovery, progress, oracle, mainPc, cfg, semaphore, wg, chanClosed, allProducts, enrichVars>>

\* a walk that leaves the page loop on a failed request instead of returning the error
FetchSwallowsError(c) ==
    /\ walker[c].pc = "fetch"
    /\ \E outs \in AttemptSeqs(PageRetries) :
         LET r == doRequestWithRetry(outs, PageRetries, DefaultDelayMs) IN
         walker' = [walker EXCEPT
                      ![c].fetches = @ + 1,
                      ![c].attempts = r.attempts,
                      ![c].status = r.status,
                      ![c].pc = IF r.err = "nil" THEN "parse" ELSE "ret"]
    /\ UNCHANGED <<fetcher, discovery, progress, oracle, mainPc, cfg, semaphore, wg, chanClosed, allProducts, enrichVars>>

\* a page fetch that has a budget of four attempts
FetchFourAttempts(c) ==
    /\ walker[c].pc = "fetch"
    /\ \E outs \in AttemptSeqs(4) :
         LET r == doRequestWithRetry(outs, 4, DefaultDelayMs) IN
         walker' = [walker EXCEPT
                      ![c].fetches = @ + 1,
                      ![c].attempts = r.attempts,
                      ![c].status = r.status,
                      ![c].err = IF r.err = "nil" THEN "nil" ELSE "network",
                      ![c].pc = IF r.err = "nil" THEN "parse" ELSE "ret"]
    /\ UNCHANGED <<fetcher, discovery, progress, oracle, mainPc, cfg, semaphore, wg, chanClosed, allProducts, enrichVars>>

\* resp, err := doRequestWithRetry(pageURL, 2, delayMs); if err != nil { return nil, err }
Fetch(c) ==
    /\ walker[c].pc = "fetch"
    /\ \E outs \in AttemptSeqs(PageRetries) :
         LET r == doRequestWithRetry(outs, PageRetries, DefaultDelayMs) IN
         walker' = [walker EXCEPT
                      ![c].fetches = @ + 1,
                      ![c].attempts = r.attempts,
                      ![c].status = r.status,
                      ![c].err = IF r.err = "nil" THEN "nil" ELSE "network",
                      ![c].pc = IF r.err = "nil" THEN "parse" ELSE "ret"]
    /\ UNCHANGED <<fetcher, discovery, progress, oracle, mainPc, cfg, semaphore, wg, chanClosed, allProducts, enrichVars>>

\* getUTF8Reader(resp.Body) and goquery.NewDocumentFromReader(utf8Reader)
Parse(c) ==
    /\ walker[c].pc = "parse"
    /\ \E e \in {"nil", "decode", "parse"} :
         walker' = [walker EXCEPT
                      ![c].err = e,
                      ![c].attempts = 0,
                      ![c].pc = IF e = "nil" THEN "extract" ELSE "ret"]
    /\ UNCHANGED <<fetcher, discovery, progress, oracle, mainPc, cfg, semaphore, wg, chanClosed, allProducts, enrichVars>>

\* the numbers of cards page pageNum of the site can show
PageCounts(c) ==
    IF walker[c].pageNum > cfg.site.lastPage THEN {0} ELSE {0, cfg.site.pageSize}

PageOffsets(c) == cfg.site.offsets

\* a loop that goes on whenever the Oracle says so, even after an empty page
ContinuesOnOracleOnly(products, hasNextPage) == hasNextPage

\* if !hasNextPage || len(products) == 0 { break }; pageNum++
Continues(products, hasNextPage) == hasNextPage /\ Len(products) # 0

\* a page loop that steps over one page index when it goes on
ExtractSkipsPage(c) ==
    /\ walker[c].pc = "extract"
    /\ \E n \in PageCounts(c), first \in PageOffsets(c), more \in BOOLEAN :
         LET products == PageOf(c, first, n) IN
         walker' = [walker EXCEPT
                      ![c].products = products,
                      ![c].hasNextPage = more,
                      ![c].allProducts = @ \o products,
                      ![c].pagesDone = @ + 1,
                      ![c].pageNum = IF Continues(products, more) THEN @ + 2 ELSE @,
                      ![c].pc = IF Continues(products, more) THEN "loop" ELSE "ret"]
    /\ UNCHANGED <<fetcher, discovery, progress, oracle, mainPc, cfg, semaphore, wg, chanClosed, allProducts, enrichVars>>

\* products, hasNextPage := extractProductsFromPage(doc, category);
\* allProducts = append(allProducts, products...); break or pageNum++
Extract(c) ==
    /\ walker[c].pc = "extract"
    /\ \E n \in PageCounts(c), first \in PageOffsets(c), more \in BOOLEAN :
         LET products == PageOf(c, first, n) IN
         walker' = [walker EXCEPT
                      ![c].products = products,
                      ![c].hasNextPage = more,
                      ![c].allProducts = @ \o products,
                      ![c].pagesDone = @ + 1,
                      ![c].pageNum = IF Continues(products, more) THEN @ + 1 ELSE @,
                      ![c].pc = IF Continues(products, more) THEN "loop" ELSE "ret"]
    /\ UNCHANGED <<fetcher, discovery, progress, oracle, mainPc, cfg, semaphore, wg, chanClosed, allProducts, enrichVars>>

\* a walk that gives its slot back on the normal return only
ReturnLeak(c) ==
    /\ walker[c].pc = "ret"
    /\ semaphore' = IF walker[c].err = "nil" THEN semaphore - 1 ELSE semaphore
    /\ walker' = [walker EXCEPT
                    ![c].pc = "deliver",
                    ![c].got = IF walker[c].err = "nil" THEN walker[c].allProducts ELSE <<>>,
                    ![c].allProducts = <<>>,
                    ![c].products = <<>>,
                    ![c].hasNextPage = FALSE,
                    ![c].attempts = 0,
                    ![c].status = 0]
    /\ UNCHANGED <<fetcher, discovery, progress, oracle, mainPc, cfg, wg, chanClosed, allProducts, enrichVars>>

\* a walk that returns with its slot still taken
ReturnHoldsSlot(c) ==
    /\ walker[c].pc = "ret"
    /\ walker' = [walker EXCEPT
                    ![c].pc = "deliver",
                    ![c].got = IF walker[c].err = "nil" THEN walker[c].allProducts ELSE <<>>,
                    ![c].allProducts = <<>>,
                    ![c].products = <<>>,
                    ![c].hasNextPage = FALSE,
                    ![c].attempts = 0,
                    ![c].status = 0]
    /\ UNCHANGED <<fetcher, discovery, progress, oracle, mainPc, cfg, semaphore, wg, chanClosed, allProducts, enrichVars>>

\* return allProducts, nil / return nil, err; the deferred <-semaphore runs
Return(c) ==
    /\ walker[c].pc = "ret"
    /\ semaphore' = semaphore - 1
    /\ walker' = [walker EXCEPT
                    ![c].pc = "deliver",
                    ![c].got = IF walker[c].err = "nil" THEN walker[c].allProducts ELSE <<>>,
                    ![c].allProducts = <<>>,
                    ![c].products = <<>>,
                    ![c].hasNextPage = FALSE,
                    ![c].attempts = 0,
                    ![c].status = 0]
    /\ UNCHANGED <<fetcher, discovery, progress, oracle, mainPc, cfg, wg, chanClosed, allProducts, enrichVars>>

Walk(c) ==
    \/ Acquire(c)
    \/ LoopCheck(c)
    \/ Fetch(c)
    \/ Parse(c)
    \/ Extract(c)
    \/ Return(c)

(***************************************************************************)
(* main: the harvest phase.                                                *)
(***************************************************************************)
\* productChan := make(chan Product); semaphore := make(chan struct{}, *threads);
\* for each category: wg.Add(1); go func(cat) {...}; go func() { wg.Wait(); close }
StartHarvest ==
    /\ mainPc = "start"
    /\ \E t \in 0..MaxThreads, sp \in PipelineStartPages, ep \in PipelineEndPages,
          site \in PipelineSites :
         cfg' = [threads |-> t, startPage |-> sp, endPage |-> ep, site |-> site]
    /\ walker' = [c \in Cats |-> [IdleWalker EXCEPT !.pc = "acquire"]]
    /\ wg' = NumCats
    /\ mainPc' = "collect"
    /\ discovery' = NoDiscovery(discovery.links)
    /\ UNCHANGED <<fetcher, progress, oracle, semaphore, chanClosed, allProducts, enrichVars>>

\* productChan <- product, received by `for product := range productChan`
\* (the channel is unbuffered: send and receive are one step)
Send(c) ==
    /\ walker[c].pc = "deliver"
    /\ walker[c].err = "nil"
    /\ walker[c].sent < Len(walker[c].got)
    /\ mainPc = "collect"
    /\ ~chanClosed
    /\ allProducts' = Append(allProducts, walker[c].got[walker[c].sent + 1])
    /\ walker' = [walker EXCEPT ![c].sent = @ + 1]
    /\ UNCHANGED <<fetcher, discovery, progress, oracle, mainPc, cfg, semaphore, wg, chanClosed, enrichVars>>

\* a goroutine that signals the WaitGroup after its sends only, not on the error return
WorkerDoneNoDefer(c) ==
    /\ walker[c].pc = "deliver"
    /\ walker[c].err # "nil" \/ walker[c].sent >= Len(walker[c].got)
    /\ wg' = IF walker[c].err # "nil" THEN wg ELSE wg - 1
    /\ walker' = [walker EXCEPT ![c].pc = "done"]
    /\ UNCHANGED <<fetcher, discovery, progress, oracle, mainPc, cfg, semaphore, chanClosed, allProducts, enrichVars>>

\* a goroutine whose send loop stops one product short
WorkerDoneEarly(c) ==
    /\ walker[c].pc = "deliver"
    /\ walker[c].err # "nil" \/ walker[c].sent >= Len(walker[c].got) - 1
    /\ wg' = wg - 1
    /\ walker' = [walker EXCEPT ![c].pc = "done"]
    /\ UNCHANGED <<fetcher, discovery, progress, oracle, mainPc, cfg, semaphore, chanClosed, allProducts, enrichVars>>

\* the goroutine returns (after the error log, or after the last send): wg.Done()
WorkerDone(c) ==
    /\ walker[c].pc = "deliver"
    /\ walker[c].err # "nil" \/ walker[c].sent >= Len(walker[c].got)
    /\ wg' = wg - 1
    /\ walker' = [walker EXCEPT ![c].pc = "done"]
    /\ UNCHANGED <<fetcher, discovery, progress, oracle, mainPc, cfg, semaphore, chanClosed, allProducts, enrichVars>>

\* a closer that does not wait for the WaitGroup
CloseChanEarly ==
    /\ mainPc = "collect"
    /\ ~chanClosed
    /\ chanClosed' = TRUE
    /\ UNCHANGED <<fetcher, discovery, progress, oracle, mainPc, cfg, walker, semaphore, wg, allProducts, enrichVars>>

\* go func() { wg.Wait(); close(productChan) }()
CloseChan ==
    /\ mainPc = "collect"
    /\ wg = 0
    /\ ~chanClosed
    /\ chanClosed' = TRUE
    /\ UNCHANGED <<fetcher, discovery, progress, oracle, mainPc, cfg, walker, semaphore, wg, allProducts, enrichVars>>

\* the range loop over productChan ends when the channel is closed
CollectorExit ==
    /\ mainPc = "collect"
    /\ chanClosed
    /\ mainPc' = "dedup"
    /\ UNCHANGED <<fetcher, discovery, progress, oracle, cfg, walker, semaphore, wg, chanClosed, allProducts, enrichVars>>

(***************************************************************************)
(* removeDuplicateProducts                                                 *)
(***************************************************************************)
\* the keys of a uniqueMap filled without the test for an empty ID
UniqueIDsWithEmpty(products) == {products[i].ID : i \in DOMAIN products}

\* the keys kept if only the IDs with duplicateCount > 1 were kept
UniqueIDsOfDuplicates(products) ==
    {products[i].ID : i \in {j \in DOMAIN products :
        /\ products[j].ID # ""
        /\ \E k \in DOMAIN products : k # j /\ products[k].ID = products[j].ID}}

\* the keys of uniqueMap: if product.ID == "" { continue }
UniqueIDs(products) ==
    {products[i].ID : i \in {j \in DOMAIN products : products[j].ID # ""}}

\* a map that keeps the first record stored under a key
FirstIndexOf(products, id) ==
    CHOOSE i \in DOMAIN products :
        /\ products[i].ID = id
        /\ \A j \in DOMAIN products : products[j].ID = id => i <= j

\* uniqueMap[product.ID] = product, in iteration order: the last one stays
LastIndexOf(products, id) ==
    CHOOSE i \in DOMAIN products :
        /\ products[i].ID = id
        /\ \A j \in DOMAIN products : products[j].ID = id => j <= i

UniqueMap(products) ==
    [id \in UniqueIDs(products) |-> products[LastIndexOf(products, id)]]

\* every order in which `for _, product := range uniqueMap` can visit the keys
KeyOrders(keys) ==
    {o \in [1..Cardinality(keys) -> keys] :
        \A a, b \in 1..Cardinality(keys) : a # b => o[a] # o[b]}

\* a removeDuplicateProducts that hands its argument back
removeDuplicateProductsKeepsAll(products) == {products}

\* the slices removeDuplicateProducts can return for products
removeDuplicateProducts(products) ==
    {[k \in 1..Cardinality(UniqueIDs(products)) |-> UniqueMap(products)[o[k]]] :
        o \in KeyOrders(UniqueIDs(products))}

\* allProducts = removeDuplicateProducts(allProducts); the category
\* goroutines have returned by now and their locals are gone
Dedup ==
    /\ mainPc = "dedup"
    /\ \E unique \in removeDuplicateProducts(allProducts) : allProducts' = unique
    /\ walker' = [c \in Cats |-> [IdleWalker EXCEPT !.pc = "done"]]
    /\ mainPc' = "branch"
    /\ UNCHANGED <<fetcher, discovery, progress, oracle, cfg, semaphore, wg, chanClosed, enrichVars>>

(***************************************************************************)
(* main: if !*skipDetails { ... enrichProductsWithDetails(...) }           *)
(***************************************************************************)
NoEnrich ==
    [threads |-> 0, products |-> <<>>, i |-> 0, productChan |-> <<>>, wg |-> 0,
     closed |-> FALSE, enrichedProducts |-> <<>>,
     processed |-> 0, skipped |-> 0, enriched |-> 0, errors |-> 0]

\* fetches counts the calls of doRequestWithRetry; details is the Product that
\* getProductDetails returns, of which ID, Description and Features are set
IdleDetail(p) ==
    [pc |-> "idle", prod |-> p, err |-> "nil", status |-> 0, fetches |-> 0,
     attempts |-> 0,
     details |-> [ID |-> "", Description |-> "", Features |-> <<>>]]

\* a skip branch that loses the first record on the way to the output
SkipEnrichmentLosesRecord ==
    /\ mainPc = "branch"
    /\ mainPc' = "save"
    /\ allProducts' = IF allProducts = <<>> THEN <<>> ELSE Tail(allProducts)
    /\ UNCHANGED <<fetcher, discovery, progress, oracle, harvestVars, enrichVars>>

\* the flag -skip-details is set
SkipEnrichment ==
    /\ mainPc = "branch"
    /\ mainPc' = "save"
    /\ UNCHANGED <<fetcher, discovery, progress, oracle, harvestVars, allProducts, enrichVars>>

\* a main that starts the enrichment on what the collector has gathered,
\* without removeDuplicateProducts
StartEnrichmentBeforeDedup ==
    /\ mainPc = "dedup"
    /\ \E t \in 0..MaxEnrichThreads :
         enrich' = [NoEnrich EXCEPT !.threads = t, !.products = allProducts, !.i = 1]
    /\ detail' = [k \in DOMAIN allProducts |-> IdleDetail(allProducts[k])]
    /\ mainPc' = "dispatch"
    /\ UNCHANGED <<fetcher, discovery, progress, oracle, harvestVars, allProducts, enrichSemaphore>>

\* enrichedProducts := copy of allProducts; enrichSemaphore := make(chan struct{},
\* *enrichThreads); enrichProductsWithDetails(enrichedProducts, enrichSemaphore, *delayMs)
\* up to the loop over products
StartEnrichment ==
    /\ mainPc = "branch"
    /\ \E t \in 0..MaxEnrichThreads :
         enrich' = [NoEnrich EXCEPT !.threads = t, !.products = allProducts, !.i = 1]
    /\ detail' = [k \in DOMAIN allProducts |-> IdleDetail(allProducts[k])]
    /\ mainPc' = "dispatch"
    /\ UNCHANGED <<fetcher, discovery, progress, oracle, harvestVars, allProducts, enrichSemaphore>>

\* a skip test that is content with a description or a feature
AlreadyEnrichedEither(p) == Len(p.Features) > 0 \/ p.Description # ""

\* if len(products[i].Features) > 0 && products[i].Description != ""
AlreadyEnriched(p) == Len(p.Features) > 0 /\ p.Description # ""

\* a loop whose skip branch counts the record and does not send it
DispatchSkipsWithoutSend ==
    /\ mainPc = "dispatch"
    /\ enrich.i <= Len(enrich.products)
    /\ IF AlreadyEnriched(enrich.products[enrich.i])
       THEN /\ enrich' = [enrich EXCEPT !.skipped = @ + 1, !.i = @ + 1]
            /\ UNCHANGED <<mainPc, detail>>
       ELSE /\ enrich' = [enrich EXCEPT !.wg = @ + 1]
            /\ detail' = [detail EXCEPT ![enrich.i].pc = "acquire"]
            /\ mainPc' = "processed"
    /\ UNCHANGED <<fetcher, discovery, progress, oracle, harvestVars, allProducts, enrichSemaphore>>

\* one iteration of `for i := range products` up to the `go`: the skip branch
\* (send, updateProgress("skipped"), continue) or wg.Add(1); go func(index)
Dispatch ==
    /\ mainPc = "dispatch"
    /\ enrich.i <= Len(enrich.products)
    /\ IF AlreadyEnriched(enrich.products[enrich.i])
       THEN /\ Len(enrich.productChan) < Len(enrich.products)
            /\ enrich' = [enrich EXCEPT
                            !.productChan = Append(@, enrich.products[enrich.i]),
                            !.skipped = @ + 1,
                            !.i = @ + 1]
            /\ UNCHANGED <<mainPc, detail>>
       ELSE /\ enrich' = [enrich EXCEPT !.wg = @ + 1]
            /\ detail' = [detail EXCEPT ![enrich.i].pc = "acquire"]
            /\ mainPc' = "processed"
    /\ UNCHANGED <<fetcher, discovery, progress, oracle, harvestVars, allProducts, enrichSemaphore>>

\* updateProgress("processed", ""), the end of the iteration
CountProcessed ==
    /\ mainPc = "processed"
    /\ enrich' = [enrich EXCEPT !.processed = @ + 1, !.i = @ + 1]
    /\ mainPc' = "dispatch"
    /\ UNCHANGED <<fetcher, discovery, progress, oracle, harvestVars, allProducts, enrichSemaphore, detail>>

\* the loop is over: go func() { wg.Wait(); close(productChan) }(), and main
\* goes on to range over productChan
DispatchEnd ==
    /\ mainPc = "dispatch"
    /\ enrich.i > Len(enrich.products)
    /\ mainPc' = "ecollect"
    /\ UNCHANGED <<fetcher, discovery, progress, oracle, harvestVars, allProducts, enrichVars>>

(***************************************************************************)
(* getProductDetails(url, semaphore, delayMs), called with enrichSemaphore *)
(***************************************************************************)
\* what the detail page of a product can hold
DetailAnswers == cfg.site.details

EnrichGateFree == enrichSemaphore < enrich.threads

\* getProductDetails handed the fetch gate of the harvest instead of enrichSemaphore
AcquireDetailFetchGate(i) ==
    /\ detail[i].pc = "acquire"
    /\ semaphore < cfg.threads
    /\ semaphore' = semaphore + 1
    /\ detail' = [detail EXCEPT ![i].pc = "fetch"]
    /\ UNCHANGED <<fetcher, discovery, progress, oracle, mainPc, cfg, walker, wg, chanClosed, allProducts, enrichSemaphore, enrich>>

\* semaphore <- struct{}{}
AcquireDetail(i) ==
    /\ detail[i].pc = "acquire"
    /\ EnrichGateFree
    /\ enrichSemaphore' = enrichSemaphore + 1
    /\ detail' = [detail EXCEPT ![i].pc = "fetch"]
    /\ UNCHANGED <<fetcher, discovery, progress, oracle, mainPc, harvestVars, allProducts, enrich>>

\* time.Sleep; resp, err := doRequestWithRetry(url, 2, delayMs);
\* if err != nil {return}; if resp.StatusCode != http.StatusOK {return error}
FetchDetail(i) ==
    /\ detail[i].pc = "fetch"
    /\ \E outs \in AttemptSeqs(PageRetries) :
         LET r == doRequestWithRetry(outs, PageRetries, DefaultDelayMs)
             e == IF r.err # "nil" THEN "network"
                  ELSE IF r.status # StatusOK THEN "status" ELSE "nil"
         IN detail' = [detail EXCEPT
                         ![i].fetches = @ + 1,
                         ![i].attempts = r.attempts,
                         ![i].status = r.status,
                         ![i].err = e,
                         ![i].pc = IF e = "nil" THEN "parse" ELSE "ret"]
    /\ UNCHANGED <<fetcher, discovery, progress, oracle, mainPc, harvestVars, allProducts, enrichSemaphore, enrich>>

\* the product URLs of the site have the shape /p/<segment>/
UrlSegments == {"x"} \cup {ToString(k) : k \in 0..9}
UrlOf(parts) == parts[1] \o "/" \o parts[2] \o "/" \o parts[3] \o "/" \o parts[4]

\* strings.Split(url, "/")
SplitUrl(url) ==
    CHOOSE parts \in {<<"", "p", s, "">> : s \in UrlSegments} : UrlOf(parts) = url

\* product.ID = parts[len(parts)-2]
DetailID(url) == SplitUrl(url)[Len(SplitUrl(url)) - 1]

\* getUTF8Reader, goquery.NewDocumentFromReader, then the extraction of the
\* ID, the description and the features
ParseDetail(i) ==
    /\ detail[i].pc = "parse"
    /\ \/ \E e \in {"decode", "parse"} :
            detail' = [detail EXCEPT ![i].err = e, ![i].pc = "ret"]
       \/ \E d \in DetailAnswers :
            detail' = [detail EXCEPT
                         ![i].details = [ID |-> DetailID(detail[i].prod.URL),
                                         Description |-> d.Description,
                                         Features |-> d.Features],
                         ![i].pc = "ret"]
    /\ UNCHANGED <<fetcher, discovery, progress, oracle, mainPc, harvestVars, allProducts, enrichSemaphore, enrich>>

\* a getProductDetails that gives its slot back on the normal return only
ReturnDetailLeak(i) ==
    /\ detail[i].pc = "ret"
    /\ enrichSemaphore' = IF detail[i].err = "nil" THEN enrichSemaphore - 1
                          ELSE enrichSemaphore
    /\ detail' = [detail EXCEPT ![i].pc = "merge", ![i].status = 0, ![i].attempts = 0]
    /\ UNCHANGED <<fetcher, discovery, progress, oracle, mainPc, harvestVars, allProducts, enrich>>

\* return product, nil / return Product{}, err; the deferred <-semaphore runs
ReturnDetail(i) ==
    /\ detail[i].pc = "ret"
    /\ enrichSemaphore' = enrichSemaphore - 1
    /\ detail' = [detail EXCEPT ![i].pc = "merge", ![i].status = 0, ![i].attempts = 0]
    /\ UNCHANGED <<fetcher, discovery, progress, oracle, mainPc, harvestVars, allProducts, enrich>>

\* a merge that copies the fetched description and features as they are
MergedOverwrites(prod, details) ==
    [prod EXCEPT !.Description = details.Description, !.Features = details.Features]

\* a merge that also takes the ID that getProductDetails derived from the URL
MergedWithID(prod, details) ==
    [prod EXCEPT
       !.ID = details.ID,
       !.Description = IF details.Description # "" THEN details.Description ELSE @,
       !.Features = IF Len(details.Features) > 0 THEN details.Features ELSE @]

\* if details.Description != "" { prod.Description = details.Description }
\* if len(details.Features) > 0 { prod.Features = details.Features }
Merged(prod, details) ==
    [prod EXCEPT
       !.Description = IF details.Description # "" THEN details.Description ELSE @,
       !.Features = IF Len(details.Features) > 0 THEN details.Features ELSE @]

\* a goroutine that returns on an error without sending the record
FinishDropsFailed(i) ==
    /\ detail[i].pc = "merge"
    /\ Len(enrich.productChan) < Len(enrich.products)
    /\ ~enrich.closed
    /\ LET failed == detail[i].err # "nil"
           prod == IF failed THEN detail[i].prod
                   ELSE Merged(detail[i].prod, detail[i].details)
       IN /\ enrich' = [enrich EXCEPT
                          !.productChan = IF failed THEN @ ELSE Append(@, prod),
                          !.errors = IF failed THEN @ + 1 ELSE @,
                          !.enriched = IF failed THEN @ ELSE @ + 1,
                          !.wg = @ - 1]
          /\ detail' = [detail EXCEPT
                          ![i] = [IdleDetail(prod) EXCEPT
                                    !.pc = "done", !.fetches = detail[i].fetches]]
    /\ UNCHANGED <<fetcher, discovery, progress, oracle, mainPc, harvestVars, allProducts, enrichSemaphore>>

\* a goroutine that counts a failed record as an error and as enriched
FinishCountsTwice(i) ==
    /\ detail[i].pc = "merge"
    /\ Len(enrich.productChan) < Len(enrich.products)
    /\ ~enrich.closed
    /\ LET failed == detail[i].err # "nil"
           prod == IF failed THEN detail[i].prod
                   ELSE Merged(detail[i].prod, detail[i].details)
       IN /\ enrich' = [enrich EXCEPT
                          !.productChan = Append(@, prod),
                          !.errors = IF failed THEN @ + 1 ELSE @,
                          !.enriched = @ + 1,
                          !.wg = @ - 1]
          /\ detail' = [detail EXCEPT
                          ![i] = [IdleDetail(prod) EXCEPT
                                    !.pc = "done", !.fetches = detail[i].fetches]]
    /\ UNCHANGED <<fetcher, discovery, progress, oracle, mainPc, harvestVars, allProducts, enrichSemaphore>>

\* the rest of the goroutine: on error productChan <- prod;
\* updateProgress("error"); otherwise merge, productChan <- prod;
\* updateProgress("enriched"); then the deferred wg.Done()
Finish(i) ==
    /\ detail[i].pc = "merge"
    /\ Len(enrich.productChan) < Len(enrich.products)
    /\ ~enrich.closed
    /\ LET failed == detail[i].err # "nil"
           prod == IF failed THEN detail[i].prod
                   ELSE Merged(detail[i].prod, detail[i].details)
       IN /\ enrich' = [enrich EXCEPT
                          !.productChan = Append(@, prod),
                          !.errors = IF failed THEN @ + 1 ELSE @,
                          !.enriched = IF failed THEN @ ELSE @ + 1,
                          !.wg = @ - 1]
          /\ detail' = [detail EXCEPT
                          ![i] = [IdleDetail(prod) EXCEPT
                                    !.pc = "done", !.fetches = detail[i].fetches]]
    /\ UNCHANGED <<fetcher, discovery, progress, oracle, mainPc, harvestVars, allProducts, enrichSemaphore>>

DetailWorker(i) ==
    \/ AcquireDetail(i)
    \/ FetchDetail(i)
    \/ ParseDetail(i)
    \/ ReturnDetail(i)
    \/ Finish(i)

\* a closer of the enrichment channel that does not wait for the WaitGroup
ECloseChanEarly ==
    /\ mainPc = "ecollect"
    /\ ~enrich.closed
    /\ enrich' = [enrich EXCEPT !.closed = TRUE]
    /\ UNCHANGED <<fetcher, discovery, progress, oracle, mainPc, harvestVars, allProducts, enrichSemaphore, detail>>

\* go func() { wg.Wait(); close(productChan) }()
ECloseChan ==
    /\ mainPc = "ecollect"
    /\ enrich.wg = 0
    /\ ~enrich.closed
    /\ enrich' = [enrich EXCEPT !.closed = TRUE]
    /\ UNCHANGED <<fetcher, discovery, progress, oracle, mainPc, harvestVars, allProducts, enrichSemaphore, detail>>

\* for product := range productChan { enrichedProducts = append(...) }
ERecv ==
    /\ mainPc = "ecollect"
    /\ Len(enrich.productChan) > 0
    /\ enrich' = [enrich EXCEPT
                    !.productChan = Tail(@),
                    !.enrichedProducts = Append(@, Head(enrich.productChan))]
    /\ UNCHANGED <<fetcher, discovery, progress, oracle, mainPc, harvestVars, allProducts, enrichSemaphore, detail>>

\* products = products[:0]; products = append(products, enrichedProducts...):
\* what the caller's slice of length Len(products) shows afterwards
CopyBack(products, enrichedProducts) ==
    IF Len(enrichedProducts) > Len(products)
    THEN products
    ELSE [k \in 1..Len(products) |->
            IF k <= Len(enrichedProducts) THEN enrichedProducts[k] ELSE products[k]]

\* the range loop ends on the closed, drained channel; the copy back into the
\* caller's slice; allProducts = enrichedProducts
ECollectorExit ==
    /\ mainPc = "ecollect"
    /\ enrich.closed
    /\ Len(enrich.productChan) = 0
    /\ allProducts' = CopyBack(enrich.products, enrich.enrichedProducts)
    /\ mainPc' = "save"
    /\ UNCHANGED <<fetcher, discovery, progress, oracle, harvestVars, enrichVars>>

(***************************************************************************)
(* extractProductsFromPage: the search for a next page. Of a document the  *)
(* model keeps what the search looks at:                                   *)
(*   controls    the elements [data-pagination-button], [data-pagination-  *)
(*               more]: their two attributes, whether the class contains   *)
(*               button_next, and the value of the attribute disabled      *)
(*   pagination  the a, span, div, button elements inside a pagination     *)
(*               container: whether text and class speak of "next", the    *)
(*               href, and the value of the attribute disabled             *)
(*   links       the href of the a elements                                *)
(*   nav         what the HTML says of NavPageNomer and NavPageCount        *)
(*   ajax        a script holds both bxajaxid and pagen                    *)
(* An attribute value or href is Absent, NoPagen (no "PAGEN_2=" in it),    *)
(* NotANumber ("PAGEN_2=" and no number behind it) or the number n >= 1    *)
(* behind "PAGEN_2=". s.Attr gives "" for an attribute that is absent.     *)
(***************************************************************************)
Absent == -1
NoPagen == 0
NotANumber == -2
NumHeuristics == 5

\* strings.Contains(v, "PAGEN_2=") for a value that exists
HasPagen(v) == v = NotANumber \/ v >= 1

\* 1. the buttons with data-pagination-button or data-pagination-more
Heuristic1(doc) ==
    \E k \in DOMAIN doc.controls :
        LET s == doc.controls[k] IN
        \/ HasPagen(s.button)
        \/ HasPagen(s.more)
        \/ s.classNext /\ s.disabled = ""

\* 2. the elements of the pagination containers
Heuristic2(doc) ==
    \E k \in DOMAIN doc.pagination :
        LET s == doc.pagination[k] IN
        /\ s.disabled = ""
        /\ s.textNext \/ s.classNext \/ HasPagen(s.href)

\* 3. the links with a page number; catPage is what category.URL holds
\* behind "PAGEN_2=" (NoPagen if it has no such parameter)
Heuristic3(doc, catPage) ==
    \E k \in DOMAIN doc.links :
        LET href == doc.links[k] IN
        /\ HasPagen(href)
        /\ IF HasPagen(catPage)
           THEN catPage # NotANumber /\ href # NotANumber /\ href > catPage
           ELSE TRUE

\* 4. the Bitrix scripts: NavPageNomer and NavPageCount, and not
\* NavPageNomer=NavPageCount
Heuristic4(doc) == doc.nav = "both"

\* 5. the parameters of the ajax pagination
Heuristic5(doc) == doc.ajax

Heuristic(h, doc, catPage) ==
    CASE h = 1 -> Heuristic1(doc)
      [] h = 2 -> Heuristic2(doc)
      [] h = 3 -> Heuristic3(doc, catPage)
      [] h = 4 -> Heuristic4(doc)
      [] h = 5 -> Heuristic5(doc)

\* a search that goes through all five heuristics whatever they give
RECURSIVE SearchAll(_, _, _, _)
SearchAll(h, doc, catPage, evaluated) ==
    IF h > NumHeuristics THEN evaluated
    ELSE SearchAll(h + 1, doc, catPage, Append(evaluated, Heuristic(h, doc, catPage)))

\* heuristic 1, then if !hasNextPage { heuristic 2 }, ... : what the
\* heuristics that were evaluated gave, in the order of their evaluation
RECURSIVE Search(_, _, _, _)
Search(h, doc, catPage, evaluated) ==
    IF h > NumHeuristics THEN evaluated
    ELSE IF Heuristic(h, doc, catPage)
    THEN Append(evaluated, TRUE)
    ELSE Search(h + 1, doc, catPage, Append(evaluated, FALSE))

\* the hasNextPage that extractProductsFromPage returns
HasNextPage(evaluated) == \E h \in DOMAIN evaluated : evaluated[h]

EmptyDoc ==
    [controls |-> <<>>, pagination |-> <<>>, links |-> <<>>, nav |-> "none",
     ajax |-> FALSE]

\* no call of extractProductsFromPage on its own; pageNum is the page the
\* walk is on when it calls
NoOracle ==
    [pc |-> "idle", doc |-> EmptyDoc, catPage |-> NoPagen, pageNum |-> 1,
     evaluated |-> <<>>, hasNextPage |-> FALSE]

\* products, hasNextPage := extractProductsFromPage(doc, category)
ExtractPage ==
    /\ oracle.pc = "call"
    /\ LET evaluated == Search(1, oracle.doc, oracle.catPage, <<>>) IN
       oracle' = [oracle EXCEPT
                    !.pc = "returned",
                    !.evaluated = evaluated,
                    !.hasNextPage = HasNextPage(evaluated)]
    /\ UNCHANGED <<fetcher, discovery, progress, mainPc, harvestVars, allProducts, enrichVars>>

(***************************************************************************)
(* updateProgress of enrichProductsWithDetails, step by step. Caller 0 is  *)
(* the loop over products, caller w >= 1 the goroutine of products[w-1].   *)
(* kinds[w] says what becomes of record w: "skipped" (the loop sends it on *)
(* itself), "enriched" or "error" (the outcome of its goroutine).          *)
(***************************************************************************)
MainCaller == 0
NoHolder == -1

NoProgress ==
    [mutex |-> NoHolder, kinds |-> <<>>, i |-> 0, pc |-> <<>>, mainPc |-> "idle",
     action |-> <<>>, mainAction |-> "",
     processed |-> 0, skipped |-> 0, enriched |-> 0, errors |-> 0]

ProgressCallers == {MainCaller} \cup DOMAIN progress.kinds

PcOf(c) == IF c = MainCaller THEN progress.mainPc ELSE progress.pc[c]
ActionOf(c) == IF c = MainCaller THEN progress.mainAction ELSE progress.action[c]

\* progress with caller c at position pc
AtPc(p, c, pc) ==
    IF c = MainCaller THEN [p EXCEPT !.mainPc = pc] ELSE [p EXCEPT !.pc[c] = pc]

\* one iteration of for i := range products up to its call of updateProgress:
\* the skip branch, or wg.Add(1); go func(index); or the end of the loop
ProgressLoop ==
    /\ progress.mainPc = "loop"
    /\ progress' =
          IF progress.i > Len(progress.kinds)
          THEN [progress EXCEPT !.mainPc = "end"]
          ELSE IF progress.kinds[progress.i] = "skipped"
          THEN [progress EXCEPT !.mainPc = "lock", !.mainAction = "skipped"]
          ELSE [progress EXCEPT !.mainPc = "lock", !.mainAction = "processed",
                                !.pc[progress.i] = "run"]
    /\ UNCHANGED <<fetcher, discovery, oracle, mainPc, harvestVars, allProducts, enrichVars>>

\* the goroutine up to its call of updateProgress("error", ...) or
\* updateProgress("enriched", "")
ProgressWorker(w) ==
    /\ progress.pc[w] = "run"
    /\ progress' = [progress EXCEPT !.pc[w] = "lock", !.action[w] = progress.kinds[w]]
    /\ UNCHANGED <<fetcher, discovery, oracle, mainPc, harvestVars, allProducts, enrichVars>>

\* mutex.Lock() of the inner updateProgress
ProgressLock(c) ==
    /\ PcOf(c) = "lock"
    /\ progress.mutex = NoHolder
    /\ progress' = AtPc([progress EXCEPT !.mutex = c], c, "update")
    /\ UNCHANGED <<fetcher, discovery, oracle, mainPc, harvestVars, allProducts, enrichVars>>

\* the body of the inner updateProgress: the switch that counts, the report
\* under the mutex, and the deferred mutex.Unlock()
ProgressUpdate(c) ==
    /\ PcOf(c) = "update"
    /\ progress.mutex = c
    /\ LET a == ActionOf(c) IN
       progress' = AtPc([progress EXCEPT
                           !.processed = IF a = "processed" THEN @ + 1 ELSE @,
                           !.skipped = IF a = "skipped" THEN @ + 1 ELSE @,
                           !.enriched = IF a = "enriched" THEN @ + 1 ELSE @,
                           !.errors = IF a = "error" THEN @ + 1 ELSE @,
                           !.mutex = NoHolder], c, "report")
    /\ UNCHANGED <<fetcher, discovery, oracle, mainPc, harvestVars, allProducts, enrichVars>>

\* the rest of the wrapper that took the place of updateProgress:
\* if processed%batchSize == 0 || processed == len(products) { ... log.Printf(...,
\* processed, enriched, skipped, errors, ...) }, after the inner call has
\* returned and given the mutex back; then the caller goes on
ProgressReport(c) ==
    /\ PcOf(c) = "report"
    /\ progress' =
          IF c = MainCaller
          THEN [progress EXCEPT !.mainPc = "loop", !.i = @ + 1]
          ELSE [progress EXCEPT !.pc[c] = "done"]
    /\ UNCHANGED <<fetcher, discovery, oracle, mainPc, harvestVars, allProducts, enrichVars>>

Init ==
    /\ mainPc = "start"
    /\ cfg = [threads |-> 0, startPage |-> 1, endPage |-> 0,
              site |-> [pageSize |-> 1, lastPage |-> 0, offsets |-> {}, details |-> {}]]
    /\ walker = [c \in Cats |-> IdleWalker]
    /\ semaphore = 0
    /\ wg = 0
    /\ chanClosed = FALSE
    /\ allProducts = <<>>
    /\ enrichSemaphore = 0
    /\ enrich = NoEnrich
    /\ detail = <<>>
    /\ discovery = NoDiscovery(SiteLinks)
    /\ progress = NoProgress
    /\ fetcher = NoFetcher
    /\ oracle = NoOracle

Next ==
    \/ GetCategories
    \/ StartHarvest
    \/ \E c \in Cats : Walk(c)
    \/ \E c \in Cats : Send(c)
    \/ \E c \in Cats : WorkerDone(c)
    \/ CloseChan
    \/ CollectorExit
    \/ Dedup
    \/ SkipEnrichment
    \/ StartEnrichment
    \/ Dispatch
    \/ CountProcessed
    \/ DispatchEnd
    \/ \E i \in DOMAIN detail : DetailWorker(i)
    \/ ECloseChan
    \/ ERecv
    \/ ECollectorExit

Spec == Init /\ [][Next]_vars

(***************************************************************************)
(* The harvest phase of main on its own, with the scheduling of the Go     *)
(* runtime: a goroutine that can take a step eventually takes one, and     *)
(* every client.Get returns.                                               *)
(***************************************************************************)
NextHarvest ==
    \/ StartHarvest
    \/ \E c \in Cats : Walk(c)
    \/ \E c \in Cats : Send(c)
    \/ \E c \in Cats : WorkerDone(c)
    \/ CloseChan
    \/ CollectorExit

HarvestFairness ==
    /\ WF_vars(StartHarvest)
    /\ \A c \in Cats : WF_vars(Walk(c)) /\ WF_vars(Send(c)) /\ WF_vars(WorkerDone(c))
    /\ WF_vars(CloseChan)
    /\ WF_vars(CollectorExit)

SpecHarvestFair == Init /\ [][NextHarvest]_vars /\ HarvestFairness

(***************************************************************************)
(* One call of getProductsFromCategory on its own.                         *)
(***************************************************************************)
InitWalk ==
    /\ mainPc = "walk"
    /\ \E sp \in WalkStartPages, ep \in WalkEndPages, site \in WalkSites :
         cfg = [threads |-> 1, startPage |-> sp, endPage |-> ep, site |-> site]
    /\ walker = [c \in Cats |-> IF c = 1 THEN [IdleWalker EXCEPT !.pc = "acquire"]
                                         ELSE IdleWalker]
    /\ semaphore = 0
    /\ wg = 0
    /\ chanClosed = FALSE
    /\ allProducts = <<>>
    /\ enrichSemaphore = 0
    /\ enrich = NoEnrich
    /\ detail = <<>>
    /\ discovery = NoDiscovery(SiteLinks)
    /\ progress = NoProgress
    /\ fetcher = NoFetcher
    /\ oracle = NoOracle

NextWalk == \E c \in Cats : Walk(c)

SpecWalk == InitWalk /\ [][NextWalk]_vars

(***************************************************************************)
(* One call of removeDuplicateProducts on its own: main at line            *)
(* allProducts = removeDuplicateProducts(allProducts), for every slice of  *)
(* at most MaxRecords records.                                             *)
(***************************************************************************)
\* the records of the slices: one without ID, two that share the ID "42"
\* and differ in their names, two with IDs of their own
DedupRecords ==
    {Product("", "n0", "/p/x/", "c1", <<>>),
     Product("42", "a", "/p/42/", "c1", <<>>),
     Product("42", "b", "/p/42/", "c2", <<"f0">>),
     Product("7", "c", "/p/7/", "c1", <<>>),
     Product("9", "d", "/p/9/", "c2", <<>>)}

DedupInputs == UNION {[1..n -> DedupRecords] : n \in 0..MaxRecords}

InitDedup ==
    /\ mainPc = "dedup"
    /\ allProducts \in DedupInputs
    /\ cfg = [threads |-> 0, startPage |-> 1, endPage |-> 0,
              site |-> [pageSize |-> 1, lastPage |-> 0, offsets |-> {}, details |-> {}]]
    /\ walker = [c \in Cats |-> [IdleWalker EXCEPT !.pc = "done"]]
    /\ semaphore = 0
    /\ wg = 0
    /\ chanClosed = TRUE
    /\ enrichSemaphore = 0
    /\ enrich = NoEnrich
    /\ detail = <<>>
    /\ discovery = NoDiscovery(SiteLinks)
    /\ progress = NoProgress
    /\ fetcher = NoFetcher
    /\ oracle = NoOracle

NextDedup == Dedup

SpecDedup == InitDedup /\ [][NextDedup]_vars

(***************************************************************************)
(* Helpers of the properties.                                              *)
(***************************************************************************)
Min(a, b) == IF a < b THEN a ELSE b
Max(a, b) == IF a > b THEN a ELSE b

\* the positions of a walker between taking and giving back its gate slot
WalkingPcs == {"loop", "fetch", "parse", "extract", "ret"}
Walking == {c \in Cats : walker[c].pc \in WalkingPcs}

\* the positions of a detail fetch between taking and giving back its slot
InFlightDetails == {i \in DOMAIN detail : detail[i].pc \in {"fetch", "parse", "ret"}}

\* a walk broke off on a page: the page was fetched and never extracted
WalkFailed(c) == walker[c].fetches > walker[c].pagesDone

C1_FetchBound ==
    IF cfg.endPage > 0
    THEN Max(0, Min(MaxPagesCeiling, cfg.endPage - cfg.startPage + 1))
    ELSE MaxPagesCeiling

(***************************************************************************)
(* C1: a category walk issues at most min(100, endPage-startPage+1) page   *)
(* fetches when endPage > 0 (none for an empty range), and at most 100     *)
(* when endPage = 0, for every startPage and endPage and whatever the      *)
(* pages and the Oracle answer.                                            *)
(***************************************************************************)
C1_PageFetchCeiling == \A c \in Cats : walker[c].fetches <= C1_FetchBound

(***************************************************************************)
(* C2: at every instant of the harvest the number of category walks that   *)
(* hold a slot (started and not returned), and so the number of page       *)
(* fetches in flight, is at most the fetch concurrency limit.              *)
(***************************************************************************)
C2_WalksWithinLimit ==
    /\ Cardinality(Walking) <= cfg.threads
    /\ Cardinality({c \in Cats : walker[c].pc = "fetch"}) <= cfg.threads

\* one walk holds the only slot while another category waits for it
C2_Witness ==
    /\ cfg.threads = 1
    /\ \E c, d \in Cats : walker[c].pc = "fetch" /\ walker[d].pc = "acquire"

C3_EnrichGateOnly ==
    /\ Cardinality(InFlightDetails) <= enrich.threads
    /\ mainPc \in {"dispatch", "processed", "ecollect"} => semaphore = 0

\* one detail fetch holds the only slot while another record waits for it
C3_Witness ==
    /\ enrich.threads = 1
    /\ \E i, j \in DOMAIN detail : detail[i].pc = "fetch" /\ detail[j].pc = "acquire"

(***************************************************************************)
(* C4: a slot is held exactly by the walks and detail fetches that are     *)
(* between their acquire and their return, whatever the exit path; once    *)
(* the harvest (the enrichment pass) is over, no slot of its gate is held. *)
(***************************************************************************)
C4_SlotsReleased ==
    /\ semaphore = Cardinality(Walking)
    /\ enrichSemaphore = Cardinality(InFlightDetails)
    /\ mainPc \notin {"start", "collect"} => semaphore = 0
    /\ mainPc = "save" => enrichSemaphore = 0

\* the enrichment pass is over and some detail fetch left on an error exit
C4_Witness ==
    /\ mainPc = "save"
    /\ enrich.errors >= 1
    /\ enrich.enriched >= 1

(***************************************************************************)
(* C5: with a fetch concurrency limit of at least 1 (and every HTTP        *)
(* attempt returning) the harvest eventually finishes: every category      *)
(* worker has terminated, the results channel is closed and the collector  *)
(* has left its loop.                                                      *)
(***************************************************************************)
C5_HarvestTerminates ==
    (mainPc = "collect" /\ cfg.threads >= 1)
        ~> (/\ mainPc = "dedup"
            /\ chanClosed
            /\ \A c \in Cats : walker[c].pc = "done")

\* finished with more categories than slots, one category failed, one delivered
C5_Witness ==
    /\ mainPc = "dedup"
    /\ cfg.threads < NumCats
    /\ \E c, d \in Cats : WalkFailed(c) /\ walker[d].sent > 0

C6_EffectiveMax ==
    IF cfg.endPage > 0 THEN Min(MaxPagesCeiling, cfg.endPage) ELSE MaxPagesCeiling

C6_Step(c) ==
    /\ (walker[c].pc = "extract" /\ walker'[c].pc # "extract") =>
          IF Len(walker'[c].products) >= 1 /\ walker'[c].hasNextPage
          THEN /\ walker'[c].pc = "loop"
               /\ walker'[c].pageNum = walker[c].pageNum + 1
          ELSE /\ walker'[c].pc = "ret"
               /\ walker'[c].err = "nil"
               /\ walker'[c].pageNum = walker[c].pageNum
    /\ (walker[c].pc = "loop" /\ walker'[c].pc # "loop") =>
          IF walker[c].pageNum <= C6_EffectiveMax
          THEN /\ walker'[c].pc = "fetch"
               /\ walker'[c].pageNum = walker[c].pageNum
          ELSE /\ walker'[c].pc = "ret"
               /\ walker'[c].err = "nil"

C6_ThreePages(c) ==
    /\ walker[c].pc = "ret"
    /\ cfg.site.pageSize = 10
    /\ cfg.startPage = 1
    /\ walker[c].fetches = 3
    /\ walker[c].pagesDone = 3
    /\ Len(walker[c].products) = 0

(***************************************************************************)
(* C6: after page p the walk goes on to fetch page p+1 exactly when page p *)
(* yielded at least one record, the Oracle said true and p+1 is at most    *)
(* min(100, endPage) (100 when endPage = 0); otherwise it is done. With 10 *)
(* records on pages 1 and 2 and none on page 3 the walk stops after page 3 *)
(* with 20 records.                                                        *)
(***************************************************************************)
C6_Continuation ==
    /\ [][\A c \in Cats : C6_Step(c)]_vars
    /\ [](\A c \in Cats : C6_ThreePages(c) =>
             /\ walker[c].pageNum = 3
             /\ walker[c].err = "nil"
             /\ Len(walker[c].allProducts) = 20)

C6_Witness ==
    \E c \in Cats : C6_ThreePages(c) /\ Len(walker[c].allProducts) = 20

(***************************************************************************)
(* C7: a category whose walk broke off on the fetch, the decoding or the   *)
(* parsing of a page contributes no record to the collected result, the    *)
(* records of its earlier pages included.                                  *)
(***************************************************************************)
C7_FailedCategoryContributesNothing ==
    \A c \in Cats :
        (walker[c].pc \in {"ret", "deliver", "done"} /\ WalkFailed(c)) =>
            \A k \in DOMAIN allProducts : allProducts[k].Category # CatName(c)

\* the harvest is over, a category failed on its second page (its first page
\* had yielded records) and the collected result is not empty
C7_Witness ==
    /\ mainPc = "dedup"
    /\ \E c \in Cats : WalkFailed(c) /\ walker[c].fetches = 2
    /\ Len(allProducts) > 0

FromCat(c) == SelectSeq(allProducts, LAMBDA p : p.Category = CatName(c))

(***************************************************************************)
(* C8: when the harvest is over the collected result holds, for every      *)
(* category whose walk completed without error, exactly the records that   *)
(* walk returned, whatever the other categories did.                       *)
(***************************************************************************)
C8_FailureIsolation ==
    mainPc = "dedup" =>
        \A c \in Cats : ~WalkFailed(c) => FromCat(c) = walker[c].got

\* the harvest is over, one category failed and another returned records
C8_Witness ==
    /\ mainPc = "dedup"
    /\ \E c, d \in Cats :
         /\ WalkFailed(c)
         /\ ~WalkFailed(d)
         /\ Len(walker[d].got) > 0

Count(seq, x) == Cardinality({k \in DOMAIN seq : seq[k] = x})

RECURSIVE SentCount(_, _)
SentCount(cs, x) ==
    IF cs = {} THEN 0
    ELSE LET c == CHOOSE d \in cs : TRUE IN
         Count(SubSeq(walker[c].got, 1, walker[c].sent), x) + SentCount(cs \ {c}, x)

AllCards == UNION {{Catalog(c)[k] : k \in DOMAIN Catalog(c)} : c \in Cats}

(***************************************************************************)
(* C10: the collector leaves its loop only when every category worker has  *)
(* signalled completion and every record sent has been received; what it   *)
(* has collected is at every moment the multiset of the records sent so    *)
(* far, and at the end the multiset union of the lists the walks returned. *)
(***************************************************************************)
C10_CollectorExact ==
    /\ mainPc \in {"collect", "dedup"} =>
          \A x \in AllCards \cup {allProducts[k] : k \in DOMAIN allProducts} :
              Count(allProducts, x) = SentCount(Cats, x)
    /\ mainPc = "dedup" =>
          /\ wg = 0
          /\ chanClosed
          /\ \A c \in Cats : walker[c].pc = "done" /\ walker[c].sent = Len(walker[c].got)

\* the collector is done; one category returned no record, another several
C10_Witness ==
    /\ mainPc = "dedup"
    /\ \E c, d \in Cats :
         /\ ~WalkFailed(c) /\ walker[c].fetches > 0 /\ Len(walker[c].got) = 0
         /\ Len(walker[d].got) >= 2
         /\ walker[d].sent = Len(walker[d].got)

(***************************************************************************)
(* One call of enrichProductsWithDetails on its own: main at               *)
(* if !*skipDetails, for slices of records with and without description    *)
(* and features.                                                           *)
(***************************************************************************)
\* the k-th record of a slice, with the given description and features
EnrichRecord(k, desc, feats) ==
    [Product("p" \o ToString(k), "n" \o ToString(k), "/p/" \o ToString(k) \o "/",
             "c1", feats) EXCEPT !.Description = desc]

\* what a record can hold before the enrichment
EnrichKinds ==
    {[desc |-> d, feats |-> f] : d \in {"", "Y"}, f \in {<<>>, <<"f0">>}}

\* every slice of at most two records, and one slice of three records of
\* which the middle one has both a description and features
EnrichInputs ==
    {[k \in DOMAIN kinds |-> EnrichRecord(k, kinds[k].desc, kinds[k].feats)] :
        kinds \in UNION {[1..n -> EnrichKinds] : n \in 0..2}}
    \cup {<<EnrichRecord(1, "Y", <<>>), EnrichRecord(2, "Y", <<"f0">>),
            EnrichRecord(3, "", <<>>)>>}

\* what a detail page can hold
EnrichDetails ==
    {[Description |-> d, Features |-> f] : d \in {"", "X"}, f \in {<<>>, <<"g">>}}

InitEnrich ==
    /\ mainPc = "branch"
    /\ allProducts \in EnrichInputs
    /\ cfg = [threads |-> 0, startPage |-> 1, endPage |-> 0,
              site |-> [pageSize |-> 1, lastPage |-> 0, offsets |-> {},
                        details |-> EnrichDetails]]
    /\ walker = [c \in Cats |-> [IdleWalker EXCEPT !.pc = "done"]]
    /\ semaphore = 0
    /\ wg = 0
    /\ chanClosed = TRUE
    /\ enrichSemaphore = 0
    /\ enrich = NoEnrich
    /\ detail = <<>>
    /\ discovery = NoDiscovery(SiteLinks)
    /\ progress = NoProgress
    /\ fetcher = NoFetcher
    /\ oracle = NoOracle

NextEnrich ==
    \/ StartEnrichment
    \/ Dispatch
    \/ CountProcessed
    \/ DispatchEnd
    \/ \E i \in DOMAIN detail : DetailWorker(i)
    \/ ECloseChan
    \/ ERecv
    \/ ECollectorExit

SpecEnrich == InitEnrich /\ [][NextEnrich]_vars

\* the scheduling of the Go runtime: a goroutine that can take a step
\* eventually takes one, and every client.Get returns
EnrichFairness ==
    /\ WF_vars(StartEnrichment)
    /\ WF_vars(Dispatch)
    /\ WF_vars(CountProcessed)
    /\ WF_vars(DispatchEnd)
    /\ \A i \in 1..MaxRecords : WF_vars(i \in DOMAIN detail /\ DetailWorker(i))
    /\ WF_vars(ECloseChan)
    /\ WF_vars(ERecv)
    /\ WF_vars(ECollectorExit)

SpecEnrichFair == InitEnrich /\ [][NextEnrich]_vars /\ EnrichFairness

(***************************************************************************)
(* One call of doRequestWithRetry on its own, for every maxRetries up to   *)
(* MaxRetries (and below 1) and every answer of client.Get.                 *)
(***************************************************************************)
\* the least maxRetries a call is made with (the loop does not run for
\* maxRetries <= 0)
MinRetries == -1

\* the values of delayMs
FetchDelays == {500, 1000}

InitFetch ==
    /\ mainPc = "fetch"
    /\ \E n \in MinRetries..MaxRetries, d \in FetchDelays : \E outs \in AttemptSeqs(n) :
         fetcher = [NoFetcher EXCEPT
                      !.pc = "call", !.maxRetries = n, !.delayMs = d, !.outs = outs]
    /\ cfg = [threads |-> 0, startPage |-> 1, endPage |-> 0,
              site |-> [pageSize |-> 1, lastPage |-> 0, offsets |-> {}, details |-> {}]]
    /\ walker = [c \in Cats |-> IdleWalker]
    /\ semaphore = 0
    /\ wg = 0
    /\ chanClosed = FALSE
    /\ allProducts = <<>>
    /\ enrichSemaphore = 0
    /\ enrich = NoEnrich
    /\ detail = <<>>
    /\ oracle = NoOracle
    /\ discovery = NoDiscovery(SiteLinks)
    /\ progress = NoProgress

NextFetch == FetcherCall

SpecFetch == InitFetch /\ [][NextFetch]_vars

(***************************************************************************)
(* The calls of updateProgress of one enrichment pass on their own, for    *)
(* every slice of at most MaxRecords records and everything that can       *)
(* become of each record.                                                  *)
(***************************************************************************)
ProgressKinds == {"skipped", "enriched", "error"}

InitProgress ==
    /\ mainPc = "progress"
    /\ \E n \in 1..MaxRecords : \E kinds \in [1..n -> ProgressKinds] :
         progress = [NoProgress EXCEPT
                       !.kinds = kinds, !.i = 1, !.mainPc = "loop",
                       !.pc = [w \in 1..n |-> "idle"],
                       !.action = [w \in 1..n |-> ""]]
    /\ cfg = [threads |-> 0, startPage |-> 1, endPage |-> 0,
              site |-> [pageSize |-> 1, lastPage |-> 0, offsets |-> {}, details |-> {}]]
    /\ walker = [c \in Cats |-> IdleWalker]
    /\ semaphore = 0
    /\ wg = 0
    /\ chanClosed = FALSE
    /\ allProducts = <<>>
    /\ enrichSemaphore = 0
    /\ enrich = NoEnrich
    /\ detail = <<>>
    /\ fetcher = NoFetcher
    /\ oracle = NoOracle
    /\ discovery = NoDiscovery(SiteLinks)

NextProgress ==
    \/ ProgressLoop
    \/ \E w \in DOMAIN progress.kinds : ProgressWorker(w)
    \/ \E c \in ProgressCallers : ProgressLock(c)
    \/ \E c \in ProgressCallers : ProgressUpdate(c)
    \/ \E c \in ProgressCallers : ProgressReport(c)

SpecProgress == InitProgress /\ [][NextProgress]_vars

(***************************************************************************)
(* One call of extractProductsFromPage on its own, for the documents with  *)
(* at most one element of each kind and some with two controls.            *)
(***************************************************************************)
DisabledValues == {"", "disabled"}

OracleControls ==
    {[button |-> b, more |-> mo, classNext |-> cn, hasDisabled |-> hd, disabled |-> d] :
        b \in {Absent, NoPagen, 2, 4}, mo \in {Absent, 4}, cn \in BOOLEAN,
        hd \in BOOLEAN, d \in DisabledValues}

\* the elements the selector finds have one of the two attributes; an
\* attribute disabled that is absent has the value ""
OracleControlLists ==
    {<<>>}
    \cup {<<s>> : s \in {t \in OracleControls :
                            /\ t.button # Absent \/ t.more # Absent
                            /\ ~t.hasDisabled => t.disabled = ""}}
    \cup {<<[button |-> NoPagen, more |-> Absent, classNext |-> FALSE,
             hasDisabled |-> FALSE, disabled |-> ""],
            [button |-> NoPagen, more |-> Absent, classNext |-> TRUE,
             hasDisabled |-> FALSE, disabled |-> ""]>>}

OraclePaginationLists ==
    {<<>>}
    \cup {<<[textNext |-> t, classNext |-> cn, href |-> h, disabled |-> d]>> :
            t \in BOOLEAN, cn \in BOOLEAN, h \in {Absent, 2}, d \in DisabledValues}

OracleLinkLists == {<<>>} \cup {<<h>> : h \in {NoPagen, NotANumber, 2, 4}}

OracleDocs ==
    {[controls |-> c, pagination |-> p, links |-> l, nav |-> n, ajax |-> a] :
        c \in OracleControlLists, p \in OraclePaginationLists, l \in OracleLinkLists,
        n \in {"none", "nomer", "both", "equal"}, a \in BOOLEAN}

InitOracle ==
    /\ mainPc = "extract"
    /\ \E doc \in OracleDocs, cp \in {NoPagen, 3}, pn \in {1, 3} :
         oracle = [NoOracle EXCEPT
                     !.pc = "call", !.doc = doc, !.catPage = cp, !.pageNum = pn]
    /\ cfg = [threads |-> 0, startPage |-> 1, endPage |-> 0,
              site |-> [pageSize |-> 1, lastPage |-> 0, offsets |-> {}, details |-> {}]]
    /\ walker = [c \in Cats |-> IdleWalker]
    /\ semaphore = 0
    /\ wg = 0
    /\ chanClosed = FALSE
    /\ allProducts = <<>>
    /\ enrichSemaphore = 0
    /\ enrich = NoEnrich
    /\ detail = <<>>
    /\ fetcher = NoFetcher
    /\ discovery = NoDiscovery(SiteLinks)
    /\ progress = NoProgress

NextOracle == ExtractPage

SpecOracle == InitOracle /\ [][NextOracle]_vars

\* main replaces allProducts by the result of removeDuplicateProducts
DedupStep == mainPc = "dedup" /\ mainPc' = "branch"

\* the records of a slice, as a set
Range(s) == {s[i] : i \in DOMAIN s}

(***************************************************************************)
(* C11: for every input slice the output of removeDuplicateProducts has at *)
(* most as many records as the input, and no two records of the output     *)
(* share an ID.                                                            *)
(***************************************************************************)
C11_NoLongerAndUnique ==
    [][DedupStep =>
         /\ Len(allProducts') <= Len(allProducts)
         /\ \A a, b \in DOMAIN allProducts' :
                a # b => allProducts'[a].ID # allProducts'[b].ID]_vars

\* an input of full length in which one ID occurs twice, next to another ID,
\* and the two records that come out of it
C11_Witness ==
    /\ mainPc = "dedup"
    /\ Len(allProducts) = MaxRecords
    /\ \E a, b, c \in DOMAIN allProducts :
         /\ a # b
         /\ allProducts[a].ID = "42" /\ allProducts[b].ID = "42"
         /\ allProducts[c].ID = "7"
    /\ \A out \in removeDuplicateProducts(allProducts) : Len(out) = 2

(***************************************************************************)
(* C12: last seen wins. For every non-empty ID that occurs in the input,   *)
(* the output holds exactly one record with that ID, and it is equal,      *)
(* field for field, to the last record with that ID in the input.          *)
(***************************************************************************)
C12_LastSeenWins ==
    [][DedupStep =>
         \A i \in DOMAIN allProducts :
             allProducts[i].ID # "" =>
                /\ Cardinality({j \in DOMAIN allProducts' :
                                   allProducts'[j].ID = allProducts[i].ID}) = 1
                /\ (\A k \in DOMAIN allProducts :
                        k > i => allProducts[k].ID # allProducts[i].ID)
                   => \E j \in DOMAIN allProducts' : allProducts'[j] = allProducts[i]]_vars

\* two records with the ID "42" and different names, the later one named "b":
\* only that one comes out
C12_Witness ==
    /\ mainPc = "dedup"
    /\ Len(allProducts) = 2
    /\ allProducts[1].ID = "42" /\ allProducts[1].Name = "a"
    /\ allProducts[2].ID = "42" /\ allProducts[2].Name = "b"
    /\ removeDuplicateProducts(allProducts) = {<<allProducts[2]>>}

(***************************************************************************)
(* C13: idempotence. removeDuplicateProducts applied to its own output     *)
(* returns the same set of records.                                        *)
(***************************************************************************)
C13_Idempotent ==
    mainPc = "branch" =>
        \A again \in removeDuplicateProducts(allProducts) :
            /\ Range(again) = Range(allProducts)
            /\ Len(again) = Len(allProducts)

\* an output of three records
C13_Witness ==
    /\ mainPc = "branch"
    /\ Len(allProducts) = 3
    /\ \E i \in DOMAIN allProducts : allProducts[i].ID = "42"

(***************************************************************************)
(* C14: the output of removeDuplicateProducts holds no record with an      *)
(* empty ID: every input record with an empty ID is dropped.               *)
(***************************************************************************)
C14_EmptyIdDropped ==
    [][DedupStep =>
         /\ \A j \in DOMAIN allProducts' : allProducts'[j].ID # ""
         /\ \A i \in DOMAIN allProducts :
                allProducts[i].ID = "" => allProducts[i] \notin Range(allProducts')]_vars

\* an input with a record without ID between two records with IDs, and the
\* two records that come out of it
C14_Witness ==
    /\ mainPc = "dedup"
    /\ Len(allProducts) = 3
    /\ allProducts[1].ID = "7" /\ allProducts[2].ID = "" /\ allProducts[3].ID = "9"
    /\ \A out \in removeDuplicateProducts(allProducts) :
          Range(out) = {allProducts[1], allProducts[3]}

(***************************************************************************)
(* C15: a harvested record without ID is left out of the deduplication     *)
(* only, not out of the harvest: it is still among the records that main   *)
(* passes on to the enrichment and to the output files once                *)
(* removeDuplicateProducts has run.                                        *)
(***************************************************************************)
C15_EmptyIdSurvivesDedup ==
    mainPc = "dedup" =>
        \A unique \in removeDuplicateProducts(allProducts) :
            \A i \in DOMAIN allProducts :
                allProducts[i].ID = "" => allProducts[i] \in Range(unique)

\* the goroutine of record i sends its record and ends
FinishStep(i) == detail[i].pc = "merge" /\ detail'[i].pc = "done"

\* the record the goroutine of record i has just sent
SentBy(i) == enrich'.productChan[Len(enrich'.productChan)]

(***************************************************************************)
(* C16: the merge rule. For a record whose detail fetch succeeded, the     *)
(* description sent on is the fetched description if that is non-empty,    *)
(* else the description before; the features sent on are the fetched list  *)
(* if that is non-empty, else the features before.                         *)
(***************************************************************************)
C16_MergeRule ==
    [][\A i \in DOMAIN detail :
          FinishStep(i) /\ detail[i].err = "nil" =>
             LET before == enrich.products[i]
                 fetched == detail[i].details
             IN /\ Len(enrich'.productChan) = Len(enrich.productChan) + 1
                /\ SentBy(i).Description =
                      (IF fetched.Description # "" THEN fetched.Description
                       ELSE before.Description)
                /\ SentBy(i).Features =
                      (IF fetched.Features # <<>> THEN fetched.Features
                       ELSE before.Features)]_vars

\* both detail fetches of a slice succeeded: a record without description came
\* out with the fetched description "X", a record with the description "Y",
\* whose detail page had no description, came out with "Y" and the fetched features
C16_Witness ==
    /\ mainPc = "save"
    /\ enrich.enriched = 2
    /\ \E i, j \in DOMAIN enrich.products, a, b \in DOMAIN allProducts :
         /\ enrich.products[i].Description = ""
         /\ allProducts[a].ID = enrich.products[i].ID
         /\ allProducts[a].Description = "X"
         /\ enrich.products[j].Description = "Y"
         /\ enrich.products[j].Features = <<>>
         /\ allProducts[b].ID = enrich.products[j].ID
         /\ allProducts[b].Description = "Y"
         /\ allProducts[b].Features = <<"g">>

(***************************************************************************)
(* C17: a record whose detail fetch fails (retries used up, a status other *)
(* than 200, a decoding or parse error) is sent on with every field as it  *)
(* was before the enrichment, the error counter grows by one, and every    *)
(* other record is still processed: at the end the result holds one record *)
(* for each record of the input.                                           *)
(***************************************************************************)
C17_FailureKeepsRecord ==
    /\ [][\A i \in DOMAIN detail :
             FinishStep(i) /\ detail[i].err # "nil" =>
                /\ Len(enrich'.productChan) = Len(enrich.productChan) + 1
                /\ SentBy(i) = enrich.products[i]
                /\ enrich'.errors = enrich.errors + 1
                /\ enrich'.enriched = enrich.enriched
                /\ \A j \in DOMAIN detail : j # i => detail'[j] = detail[j]]_vars
    /\ [](mainPc = "save" =>
             /\ Len(allProducts) = Len(enrich.products)
             /\ {allProducts[k].ID : k \in DOMAIN allProducts}
                   = {enrich.products[k].ID : k \in DOMAIN enrich.products}
             /\ enrich.enriched + enrich.errors + enrich.skipped = Len(enrich.products)
             /\ \A i \in DOMAIN detail :
                    detail[i].pc = "done" /\ detail[i].fetches = 1
                    /\ detail[i].prod = enrich.products[i]
                    => enrich.products[i] \in Range(allProducts))

\* the pass is over: the detail fetch of a record with the description "Y"
\* failed and the record is in the result as it was, the detail fetch of
\* another record succeeded and changed it
C17_Witness ==
    /\ mainPc = "save"
    /\ enrich.errors = 1
    /\ enrich.enriched = 1
    /\ \E i, j \in DOMAIN enrich.products :
         /\ enrich.products[i].Description = "Y"
         /\ enrich.products[i] \in Range(allProducts)
         /\ enrich.products[j] \notin Range(allProducts)

\* record i of the slice has a non-empty description and at least one feature
HasBoth(i) ==
    enrich.products[i].Description # "" /\ Len(enrich.products[i].Features) >= 1

Frame(p) ==
    [ID |-> p.ID, Name |-> p.Name, URL |-> p.URL, Price |-> p.Price,
     ImageURL |-> p.ImageURL, Category |-> p.Category]

(***************************************************************************)
(* C19: the enrichment changes at most the description and the features of *)
(* a record: ID, name, URL, price, image URL and category of every record  *)
(* are after the pass what they were before it, whether the record was     *)
(* skipped, enriched or had an error; the ID that getProductDetails        *)
(* derives from the URL is never merged in.                                *)
(***************************************************************************)
C19_FrameKept ==
    /\ \A i \in DOMAIN detail : Frame(detail[i].prod) = Frame(enrich.products[i])
    /\ \A k \in DOMAIN enrich.productChan :
          \E i \in DOMAIN enrich.products :
              Frame(enrich.productChan[k]) = Frame(enrich.products[i])
    /\ \A k \in DOMAIN enrich.enrichedProducts :
          \E i \in DOMAIN enrich.products :
              Frame(enrich.enrichedProducts[k]) = Frame(enrich.products[i])
    /\ mainPc = "save" =>
          /\ Len(allProducts) = Len(enrich.products)
          /\ \A i \in DOMAIN enrich.products :
                \E k \in DOMAIN allProducts :
                    Frame(allProducts[k]) = Frame(enrich.products[i])

\* the pass over the slice of three records is over: one record was skipped,
\* one had an error, and one was enriched from a detail page whose URL gives
\* another ID than the record has
C19_Witness ==
    /\ mainPc = "save"
    /\ enrich.skipped = 1 /\ enrich.errors = 1 /\ enrich.enriched = 1
    /\ \E i \in DOMAIN enrich.products :
         /\ enrich.products[i] \notin Range(allProducts)
         /\ DetailID(enrich.products[i].URL) # enrich.products[i].ID

\* every client.Get of the call fails
AllAttemptsFail ==
    \A k \in 1..fetcher.maxRetries : ~fetcher.outs[k].ok

(***************************************************************************)
(* C20: doRequestWithRetry called with maxRetries = n >= 1, all n attempts *)
(* failing: it makes exactly n attempts, the delays d, 2d, ..., n*d elapse *)
(* in that order, delay i right after failed attempt i, and the caller     *)
(* gets the error that wraps the cause of the last attempt.                *)
(***************************************************************************)
C20_RetryExhausted ==
    fetcher.pc = "returned" /\ fetcher.maxRetries >= 1 /\ AllAttemptsFail =>
        LET n == fetcher.maxRetries
            d == fetcher.delayMs
            r == fetcher.result
        IN /\ r.attempts = n
           /\ r.sleeps = [k \in 1..n |-> k * d]
           /\ Len(r.events) = 2 * n
           /\ \A k \in 1..n :
                 /\ r.events[2 * k - 1] = [op |-> "get", n |-> k]
                 /\ r.events[2 * k] = [op |-> "sleep", n |-> k * d]
           /\ r.err = "exhausted"
           /\ r.cause = fetcher.outs[n].cause

\* maxRetries = 3, three failed attempts of which the last has another cause
\* than the first: the delays were d, 2d, 3d
C20_Witness ==
    /\ fetcher.pc = "returned"
    /\ fetcher.maxRetries = 3
    /\ AllAttemptsFail
    /\ fetcher.outs[1].cause # fetcher.outs[3].cause
    /\ fetcher.delayMs = 500
    /\ fetcher.result.sleeps = <<500, 1000, 1500>>
    /\ fetcher.result.err = "exhausted"

\* the first client.Get of the call that gives a response, 0 if none does
FirstResponse ==
    IF \E k \in 1..fetcher.maxRetries : fetcher.outs[k].ok
    THEN CHOOSE k \in 1..fetcher.maxRetries :
            fetcher.outs[k].ok /\ \A j \in 1..(k - 1) : ~fetcher.outs[j].ok
    ELSE 0

(***************************************************************************)
(* C21: a response with a status outside 2xx does not use up a retry: the  *)
(* loop of doRequestWithRetry ends at the attempt that got the response,   *)
(* with no sleep after it and no further attempt, and the caller gets the  *)
(* response with its status, not the error of used-up retries.             *)
(***************************************************************************)
C21_BadStatusEndsLoop ==
    fetcher.pc = "returned" /\ FirstResponse > 0
    /\ fetcher.outs[FirstResponse].status # StatusOK =>
        LET k == FirstResponse
            r == fetcher.result
        IN /\ r.attempts = k
           /\ Len(r.sleeps) = k - 1
           /\ r.events[Len(r.events)] = [op |-> "get", n |-> k]
           /\ Cardinality({e \in DOMAIN r.events : r.events[e].op = "get"}) = k
           /\ r.err = "nil"
           /\ r.status = fetcher.outs[k].status

\* maxRetries = 3: the first attempt failed, the second got a 404, the third
\* would have got a 200; the call returned the 404 after two attempts
C21_Witness ==
    /\ fetcher.pc = "returned"
    /\ fetcher.maxRetries = 3
    /\ ~fetcher.outs[1].ok
    /\ fetcher.outs[2].ok /\ fetcher.outs[2].status = 404
    /\ fetcher.outs[3].ok /\ fetcher.outs[3].status = StatusOK
    /\ fetcher.result.attempts = 2
    /\ fetcher.result.status = 404

(***************************************************************************)
(* C22: retry budgets. getCategories makes at most 3 HTTP attempts for the *)
(* catalog page; every fetch of a category page and every fetch of a       *)
(* detail page makes at most 2 HTTP attempts, so a walk makes at most 2    *)
(* attempts for each page it visits.                                       *)
(***************************************************************************)
C22_RetryBudgets ==
    /\ discovery.attempts <= 3
    /\ discovery.pc = "done" /\ discovery.err # "network" => discovery.attempts >= 1
    /\ \A c \in Cats :
          /\ walker[c].attempts <= 2
          /\ walker[c].pc = "parse" => walker[c].attempts >= 1
    /\ \A i \in DOMAIN detail :
          /\ detail[i].attempts <= 2
          /\ detail[i].pc = "parse" => detail[i].attempts >= 1

\* a category page that was fetched at the second attempt, while the fetch of
\* a page of another category failed after two attempts
C22_Witness ==
    \E c, d \in Cats :
        /\ walker[c].pc = "parse" /\ walker[c].attempts = 2
        /\ walker[d].pc = "ret" /\ walker[d].err = "network" /\ walker[d].attempts = 2

\* batchSize := maxNum(1, len(products)/20)
BatchSize == Max(1, Len(progress.kinds) \div 20)

\* the counter that updateProgress(action, ...) writes
CounterOf(action) == IF action = "error" THEN "errors" ELSE action

\* the counters that the wrapper reads after the inner updateProgress has
\* returned: processed for its test, and all four for log.Printf if the test holds
ReportReads ==
    IF progress.processed % BatchSize = 0 \/ progress.processed = Len(progress.kinds)
    THEN {"processed", "enriched", "skipped", "errors"}
    ELSE {"processed"}

(***************************************************************************)
(* C23: the progress counters are protected by the one statistics mutex:   *)
(* every read and every write of them that can happen while enrichment     *)
(* goroutines run is made with the mutex held, so that no access without   *)
(* the mutex is concurrent with the update of a goroutine.                 *)
(***************************************************************************)
C23_NoUnsynchronizedAccess ==
    \A c \in ProgressCallers, w \in DOMAIN progress.kinds :
        c # w /\ PcOf(w) = "update" /\ PcOf(c) = "report"
        => /\ progress.mutex = c
           /\ CounterOf(ActionOf(w)) \notin ReportReads

\* the positions of main before removeDuplicateProducts has returned
BeforeDedupDone == {"start", "fatal", "collect", "dedup"}

(***************************************************************************)
(* C24: the order of the phases. removeDuplicateProducts starts only when  *)
(* every category walk has finished and the collector has drained the      *)
(* results channel; no detail page is fetched before it has returned; and  *)
(* detail pages are fetched only for records of the deduplicated set.      *)
(***************************************************************************)
C24_PhaseOrder ==
    /\ mainPc = "dedup" =>
          /\ \A c \in Cats : walker[c].pc = "done" /\ walker[c].sent = Len(walker[c].got)
          /\ chanClosed
          /\ wg = 0
          /\ semaphore = 0
    /\ mainPc \in BeforeDedupDone \cup {"branch"} =>
          /\ detail = <<>>
          /\ enrichSemaphore = 0
    /\ detail # <<>> =>
          /\ \A c \in Cats : walker[c].pc = "done"
          /\ DOMAIN detail = DOMAIN enrich.products
          /\ \A i \in DOMAIN detail :
                /\ enrich.products[i].ID # ""
                /\ detail[i].prod.ID = enrich.products[i].ID
                /\ detail[i].prod.URL = enrich.products[i].URL
                /\ \A j \in DOMAIN detail :
                      j # i => enrich.products[j].ID # enrich.products[i].ID
    /\ mainPc \in {"dispatch", "processed", "ecollect"} => enrich.products = allProducts

\* a detail page is being fetched for one of the two records that are left
\* of a harvest in which both categories listed product p1
C24_Witness ==
    /\ mainPc = "ecollect"
    /\ Len(enrich.products) = 2
    /\ \E i, j \in DOMAIN enrich.products :
         /\ enrich.products[i].ID = "p1" /\ enrich.products[i].Category = CatName(1)
         /\ enrich.products[j].ID = "p2"
         /\ detail[i].pc = "fetch"

\* heuristic h fires on the document of the call
Fires(h) == Heuristic(h, oracle.doc, oracle.catPage)

(***************************************************************************)
(* C25: the search for a next page is a short-circuit disjunction of its   *)
(* five heuristics in the order 1..5: it gives true exactly when at least  *)
(* one heuristic fires, the heuristics after the first that fires are not  *)
(* evaluated, and it gives false when none fires.                          *)
(***************************************************************************)
C25_ShortCircuit ==
    oracle.pc = "returned" =>
        /\ oracle.hasNextPage = (\E h \in 1..5 : Fires(h))
        /\ \A h \in 1..5 :
              (h \in DOMAIN oracle.evaluated) = (\A g \in 1..(h - 1) : ~Fires(g))
        /\ \A h \in DOMAIN oracle.evaluated : oracle.evaluated[h] = Fires(h)

\* heuristic 2 was the first to fire, on a document on which heuristics 4
\* and 5 would fire as well: they were not evaluated
C25_Witness ==
    /\ oracle.pc = "returned"
    /\ oracle.evaluated = <<FALSE, TRUE>>
    /\ oracle.hasNextPage
    /\ Fires(4) /\ Fires(5)

\* the page the walk is on: its URL has a page number only for pageNum > 1
CurrentPage == IF oracle.pageNum > 1 THEN oracle.pageNum ELSE 1

\* the largest page number a control aims at, 0 if it aims at none
TargetOf(s) == Max(Max(s.button, s.more), 0)

(***************************************************************************)
(* C26: heuristic 1 fires only for a next-page control that is not         *)
(* disabled and that either aims at a page number larger than the current  *)
(* page or is marked as a "next" control: a disabled control, and a        *)
(* control that aims at a page not larger than the current one and is not  *)
(* marked "next", never make it fire.                                      *)
(***************************************************************************)
C26_Heuristic1Sound ==
    oracle.pc = "returned" /\ oracle.evaluated[1] =>
        \E k \in DOMAIN oracle.doc.controls :
            LET s == oracle.doc.controls[k] IN
            /\ ~s.hasDisabled
            /\ TargetOf(s) > CurrentPage \/ s.classNext

(***************************************************************************)
(* C27: heuristic 3, evaluated while the walk is on page k of a category   *)
(* (k = 1 when the URL of the page has no page number), fires only if a    *)
(* link of the page has a page number greater than k; on a page k > 1      *)
(* whose links with a page number all aim at pages <= k it does not fire.  *)
(***************************************************************************)
C27_Heuristic3LargerPage ==
    oracle.pc = "returned" /\ Len(oracle.evaluated) = 3 /\ oracle.evaluated[3]
    /\ oracle.pageNum > 1 =>
        \E k \in DOMAIN oracle.doc.links : oracle.doc.links[k] > CurrentPage

(***************************************************************************)
(* C28: within one category walk the pages are processed one after the     *)
(* other and consecutively: the k-th fetch is the fetch of page index      *)
(* startPage + k - 1, and a page is fetched only when every page fetched   *)
(* before it has been parsed and extracted and its continuation decided.   *)
(***************************************************************************)
C28_SequentialPages ==
    \A c \in Cats :
        LET w == walker[c] IN
        /\ w.pc \in {"loop", "fetch"} =>
              /\ w.pageNum = cfg.startPage + w.fetches
              /\ w.pagesDone = w.fetches
        /\ w.pc \in {"parse", "extract"} =>
              /\ w.pageNum = cfg.startPage + w.fetches - 1
              /\ w.pagesDone = w.fetches - 1

C28_Witness ==
    \E c \in Cats :
        /\ walker[c].pc = "fetch"
        /\ cfg.startPage = 2
        /\ walker[c].fetches = 2
        /\ walker[c].pageNum = 4

(***************************************************************************)
(* C29: every page fetch of a walk, the first one included, comes after    *)
(* one delay of the page loop, taken by the worker while it holds its slot *)
(* of the gate: one delay per page, whatever number of attempts (and of    *)
(* backoff delays) the fetches have needed.                                *)
(***************************************************************************)
C29_DelayBeforeEveryFetch ==
    \A c \in Cats :
        /\ walker[c].pc = "fetch" =>
              /\ walker[c].delays = walker[c].fetches + 1
              /\ c \in Walking
              /\ semaphore >= Cardinality(Walking)
        /\ walker[c].pc # "fetch" => walker[c].delays = walker[c].fetches

C29_Witness ==
    \E c \in Cats :
        /\ walker[c].pc = "parse"
        /\ walker[c].attempts = PageRetries
        /\ walker[c].fetches = 2
        /\ walker[c].delays = 2

(***************************************************************************)
(* getCategories on its own, on the catalog pages a site can show.         *)
(***************************************************************************)
MaxLinks == 3

\* the links doc.Find("a[href^='/catalog/']") can find: links to two
\* categories under several names, a link without a name, a link with a
\* name of 100 bytes, a technical link and a link to a product page
CatalogLinks ==
    {Link("/catalog/a_b/", TRUE, FALSE, "A"),
     Link("/catalog/a_b/", TRUE, FALSE, "A again"),
     Link("/catalog/a_b/", TRUE, FALSE, ""),
     Link("/catalog/c_d/", TRUE, FALSE, "C"),
     Link("/catalog/c_d/", TRUE, FALSE, "nnnnnnnnnnnnnnnnnnnnnnnnnnnnnnnnnnnnnnnnnnnnnnnnnnnnnnnnnnnnnnnnnnnnnnnnnnnnnnnnnnnnnnnnnnnnnnnnnnnn"),
     Link("/catalog/c_d/", TRUE, FALSE, "C again"),
     Link("/catalog/about/", FALSE, FALSE, "T"),
     Link("/catalog/a_b/1.html", TRUE, TRUE, "P")}

CatalogLinkLists ==
    UNION {[1..n -> CatalogLinks] : n \in 0..MaxLinks}

InitCategories ==
    /\ mainPc = "start"
    /\ discovery \in {NoDiscovery(links) : links \in CatalogLinkLists}
    /\ cfg = [threads |-> 0, startPage |-> 1, endPage |-> 0,
              site |-> [pageSize |-> 1, lastPage |-> 0, offsets |-> {}, details |-> {}]]
    /\ walker = [c \in Cats |-> IdleWalker]
    /\ semaphore = 0
    /\ wg = 0
    /\ chanClosed = FALSE
    /\ allProducts = <<>>
    /\ enrichSemaphore = 0
    /\ enrich = NoEnrich
    /\ detail = <<>>
    /\ oracle = NoOracle
    /\ fetcher = NoFetcher
    /\ progress = NoProgress

NextCategories == GetCategories

SpecCategories == InitCategories /\ [][NextCategories]_vars

\* the index of the first category of found that has this URL
FirstFound(found, url) ==
    CHOOSE i \in DOMAIN found :
        /\ found[i].URL = url
        /\ \A j \in 1..(i - 1) : found[j].URL # url

(***************************************************************************)
(* C30: category discovery returns no two categories with the same URL:    *)
(* every URL found is returned exactly once, as the first category found   *)
(* with it, and the categories are returned in the order in which their    *)
(* URLs were first found.                                                  *)
(***************************************************************************)
C30_UniqueCategoryUrls ==
    discovery.pc = "done" /\ discovery.err = "nil" =>
        LET found == FoundCategories(discovery.links)
            out == discovery.categories
        IN /\ \A j, k \in DOMAIN out : out[j].URL = out[k].URL => j = k
           /\ {out[k].URL : k \in DOMAIN out} = {found[i].URL : i \in DOMAIN found}
           /\ \A k \in DOMAIN out : out[k] = found[FirstFound(found, out[k].URL)]
           /\ \A j, k \in DOMAIN out :
                 j < k => FirstFound(found, out[j].URL) < FirstFound(found, out[k].URL)

C30_Witness ==
    /\ discovery.pc = "done"
    /\ discovery.err = "nil"
    /\ Len(FoundCategories(discovery.links)) = 3
    /\ Len(discovery.categories) = 2
    /\ discovery.categories[1].URL = BaseURL \o "/catalog/c_d/"
    /\ discovery.categories[2] = [Name |-> "A", URL |-> BaseURL \o "/catalog/a_b/"]
    /\ discovery.links[3].name = "A again"

\* main takes the else branch of `if !*skipDetails`
SkipStep == mainPc = "branch" /\ mainPc' = "save"

\* main has reached saveOutput without a call of enrichProductsWithDetails
SavedWithoutEnrichment == mainPc' = "save" /\ enrich'.i = 0

(***************************************************************************)
(* C31: with the flag -skip-details no detail page is fetched and no slot  *)
(* of the enrichment gate is ever taken, and the records handed to the     *)
(* output are exactly those removeDuplicateProducts returned.              *)
(***************************************************************************)
C31_SkipEnrichment ==
    [][/\ DedupStep => allProducts' \in removeDuplicateProducts(allProducts)
       /\ SkipStep =>
            /\ allProducts' = allProducts
            /\ enrich' = NoEnrich
       /\ SavedWithoutEnrichment =>
            /\ detail' = <<>>
            /\ enrichSemaphore' = 0
            /\ enrich'.productChan = <<>>]_vars

C31_Witness ==
    /\ mainPc = "save"
    /\ enrich.i = 0
    /\ detail = <<>>
    /\ Len(allProducts) = 2

(***************************************************************************)
(* C32: a category goroutine holds no slot of the fetch gate while it      *)
(* sends on productChan: the slots taken are those of the walks that have  *)
(* not returned, so a category that waits for the gate finds a free slot   *)
(* whenever fewer than `threads` walks are running, however many           *)
(* goroutines are sending.                                                 *)
(***************************************************************************)
C32_NoSlotWhileSending ==
    /\ semaphore = Cardinality(Walking)
    /\ \A c \in Cats :
          walker[c].pc = "acquire" /\ Cardinality(Walking) < cfg.threads
              => ENABLED Acquire(c)

C32_Witness ==
    /\ cfg.threads = 1
    /\ walker[1].pc = "deliver" /\ walker[1].sent = 0 /\ Len(walker[1].got) = 2
    /\ walker[2].pc = "fetch"
    /\ semaphore = 1

\* every record sent on the productChan of enrichProductsWithDetails so far
EnrichSent == enrich.enrichedProducts \o enrich.productChan

\* record k of products has been sent: by the skip branch of the loop, or by
\* its goroutine
RecordSent(k) ==
    \/ AlreadyEnriched(enrich.products[k]) /\ k < enrich.i
    \/ detail[k].pc = "done"

IdCount(seq, id) == Cardinality({k \in DOMAIN seq : seq[k].ID = id})

(***************************************************************************)
(* C33: the enrichment keeps the membership of the record set: every       *)
(* input record is sent on productChan exactly once (by the skip branch or *)
(* by its goroutine, enriched or not), so the result has as many records   *)
(* as the input and the same ids, in some order; and productChan, whose    *)
(* capacity is the number of input records, is never full when a record    *)
(* is to be sent.                                                          *)
(***************************************************************************)
C33_MembershipKept ==
    mainPc \in {"dispatch", "processed", "ecollect", "save"} /\ enrich.i > 0 =>
        LET products == enrich.products IN
        /\ \A k \in DOMAIN products :
              IdCount(EnrichSent, products[k].ID) = IF RecordSent(k) THEN 1 ELSE 0
        /\ Len(EnrichSent) <= Len(products)
        /\ \A k \in DOMAIN detail :
              detail[k].pc = "merge" => Len(enrich.productChan) < Len(products)
        /\ mainPc = "dispatch" /\ enrich.i <= Len(products) =>
              Len(enrich.productChan) < Len(products)
        /\ mainPc = "save" =>
              /\ Len(allProducts) = Len(products)
              /\ \A k \in DOMAIN products :
                    IdCount(allProducts, products[k].ID) = 1

C33_Witness ==
    /\ mainPc = "save"
    /\ Len(enrich.products) = 3
    /\ enrich.skipped = 1 /\ enrich.errors = 1 /\ enrich.enriched = 1
    /\ allProducts[1].ID = enrich.products[2].ID
    /\ allProducts[2].ID = enrich.products[3].ID
    /\ allProducts[3].ID = enrich.products[1].ID

\* enrichProductsWithDetails has returned and none of its goroutines is left
EnrichmentOver ==
    /\ mainPc = "save"
    /\ enrich.closed
    /\ enrich.wg = 0
    /\ enrich.productChan = <<>>
    /\ enrichSemaphore = 0
    /\ \A i \in DOMAIN detail : detail[i].pc \in {"idle", "done"}

(***************************************************************************)
(* C34: with an enrichment limit of at least 1, and every client.Get       *)
(* returning, a pass of enrichProductsWithDetails that has started comes   *)
(* to its end for every slice of records, the empty one and the ones with  *)
(* more records than slots included: every goroutine ends, productChan is  *)
(* closed and the collecting loop is left.                                 *)
(***************************************************************************)
C34_EnrichmentTerminates ==
    (mainPc = "dispatch" /\ enrich.threads >= 1) ~> EnrichmentOver

C34_Witness ==
    /\ EnrichmentOver
    /\ enrich.threads = 1
    /\ Len(enrich.products) = 2
    /\ enrich.enriched + enrich.errors = 2

\* the skip branch of the loop of enrichProductsWithDetails is taken
SkipRecordStep ==
    /\ mainPc = "dispatch" /\ mainPc' = "dispatch"
    /\ enrich'.i = enrich.i + 1

\* the records of the slice that the skip branch takes
SkippedRecords == {k \in DOMAIN enrich.products : AlreadyEnriched(enrich.products[k])}

(***************************************************************************)
(* C35: every record is counted in exactly one of skipped, enriched and    *)
(* errors (the skip branch counts one skipped, a goroutine one enriched or *)
(* one error); when the pass is over skipped + enriched + errors is the    *)
(* number of input records and processed is the number of records that     *)
(* were not skipped.                                                       *)
(***************************************************************************)
C35_CountersAddUp ==
    [][/\ SkipRecordStep =>
            /\ enrich'.skipped = enrich.skipped + 1
            /\ enrich'.enriched = enrich.enriched
            /\ enrich'.errors = enrich.errors
            /\ enrich'.processed = enrich.processed
       /\ \A i \in DOMAIN detail : FinishStep(i) =>
            /\ enrich'.skipped = enrich.skipped
            /\ enrich'.processed = enrich.processed
            /\ \/ enrich'.enriched = enrich.enriched + 1 /\ enrich'.errors = enrich.errors
               \/ enrich'.enriched = enrich.enriched /\ enrich'.errors = enrich.errors + 1
       /\ mainPc' = "save" /\ enrich'.i > 0 =>
            /\ enrich'.skipped + enrich'.enriched + enrich'.errors = Len(enrich'.products)
            /\ enrich'.skipped = Cardinality(SkippedRecords)
            /\ enrich'.processed = Len(enrich'.products) - Cardinality(SkippedRecords)]_vars

C35_Witness ==
    /\ mainPc = "save"
    /\ Len(enrich.products) = 3
    /\ enrich.skipped = 1 /\ enrich.errors = 1 /\ enrich.enriched = 1
    /\ enrich.processed = 2

(***************************************************************************)
(* C36: at every instant of the enrichment pass enriched + errors is at    *)
(* most processed: no goroutine counts its record as enriched or failed    *)
(* before the loop has counted it as processed.                            *)
(***************************************************************************)
C36_CompletionAfterProcessed ==
    enrich.enriched + enrich.errors <= enrich.processed

\* the goroutines of the harvest that have not yet called wg.Done
HarvestProducers == {c \in Cats : walker[c].pc \notin {"idle", "done"}}

\* the goroutines of the enrichment that have not yet called wg.Done
EnrichProducers == {i \in DOMAIN detail : detail[i].pc \notin {"idle", "done"}}

(***************************************************************************)
(* C37: each of the two results channels is closed once and stays closed;  *)
(* it is closed only when every goroutine registered in its WaitGroup has  *)
(* finished, so that no goroutine (and, for the enrichment, not the loop   *)
(* of the skip branch either) has a send left when the channel is closed.  *)
(***************************************************************************)
C37_CloseAfterProducers ==
    [][/\ chanClosed => chanClosed'
       /\ enrich.closed => enrich'.closed
       /\ chanClosed' => wg' = 0 /\ HarvestProducers' = {}
       /\ enrich'.closed =>
            /\ enrich'.wg = 0
            /\ EnrichProducers' = {}
            /\ mainPc' \in {"ecollect", "save"}]_vars

C37_Witness ==
    /\ chanClosed
    /\ enrich.closed
    /\ Len(allProducts) = 2
    /\ Len(enrich.productChan) = 2
    /\ mainPc = "ecollect"

(***************************************************************************)
(* C38: doRequestWithRetry stops at the first client.Get that gives a      *)
(* response: if that is attempt k, exactly k attempts are made, the delays *)
(* d, 2d, ..., (k-1)d are slept before it, each right after a failed       *)
(* attempt, none after it, and the response of attempt k is returned. With *)
(* maxRetries <= 0 no attempt is made and an error is returned.            *)
(***************************************************************************)
C38_FirstSuccessStops ==
    fetcher.pc = "returned" =>
        LET k == FirstResponse
            d == fetcher.delayMs
            r == fetcher.result
        IN /\ k > 0 =>
                /\ r.attempts = k
                /\ r.sleeps = [j \in 1..(k - 1) |-> j * d]
                /\ Len(r.events) = 2 * k - 1
                /\ \A j \in 1..(k - 1) :
                      /\ r.events[2 * j - 1] = [op |-> "get", n |-> j]
                      /\ r.events[2 * j] = [op |-> "sleep", n |-> j * d]
                /\ r.events[2 * k - 1] = [op |-> "get", n |-> k]
                /\ r.err = "nil"
                /\ r.status = fetcher.outs[k].status
           /\ fetcher.maxRetries <= 0 =>
                /\ r.attempts = 0
                /\ r.events = <<>>
                /\ r.err = "exhausted"

\* maxRetries = 3: two failed attempts, then a response: the delays were d, 2d
C38_Witness ==
    /\ fetcher.pc = "returned"
    /\ fetcher.maxRetries = 3
    /\ FirstResponse = 3
    /\ fetcher.delayMs = 1000
    /\ fetcher.result.sleeps = <<1000, 2000>>
    /\ fetcher.result.status = StatusOK

\* the page range of the walk is empty
EmptyRange ==
    \/ cfg.endPage > 0 /\ cfg.endPage < cfg.startPage
    \/ cfg.startPage > MaxPagesCeiling

(***************************************************************************)
(* C39: a walk with an empty page range (endPage > 0 and endPage <         *)
(* startPage, or startPage > 100) takes its slot of the gate, makes no     *)
(* fetch and no delay, and returns an empty list and no error, giving the  *)
(* slot back.                                                              *)
(***************************************************************************)
C39_EmptyRange ==
    \A c \in Cats :
        EmptyRange /\ walker[c].pc # "idle" =>
            /\ walker[c].pc \in {"acquire", "loop", "ret", "deliver", "done"}
            /\ walker[c].fetches = 0
            /\ walker[c].delays = 0
            /\ walker[c].pagesDone = 0
            /\ walker[c].allProducts = <<>>
            /\ walker[c].err = "nil"
            /\ walker[c].pc \in {"loop", "ret"} => c \in Walking /\ semaphore >= 1
            /\ walker[c].pc \in {"deliver", "done"} =>
                  /\ walker[c].got = <<>>
                  /\ semaphore = Cardinality(Walking)

C39_Witness ==
    /\ cfg.startPage = 3 /\ cfg.endPage = 2
    /\ walker[1].pc = "deliver"
    /\ walker[1].fetches = 0
    /\ walker[1].got = <<>>
    /\ semaphore = 0

(***************************************************************************)
(* C40: with -threads 0 and at least one category the harvest is stuck:    *)
(* the gate has no slot, so no goroutine gets past semaphore <- struct{}{},*)
(* no page is fetched, wg never reaches 0, productChan is never closed and *)
(* main never leaves the collecting loop for removeDuplicateProducts.      *)
(***************************************************************************)
C40_ZeroThreadsStuck ==
    cfg.threads = 0 /\ mainPc \notin {"start", "fatal"} /\ NumCats >= 1 =>
        /\ mainPc = "collect"
        /\ \A c \in Cats : walker[c].pc = "acquire" /\ walker[c].fetches = 0
        /\ semaphore = 0
        /\ wg = NumCats
        /\ ~chanClosed
        /\ allProducts = <<>>
        /\ ~ENABLED Next

C40_Witness ==
    /\ cfg.threads = 0
    /\ mainPc = "collect"
    /\ wg = NumCats
    /\ \A c \in Cats : walker[c].pc = "acquire"
    /\ ~ENABLED Next

====
